---- MODULE Spec2Model ----
(***************************************************************************)
(* The PyCBC tutorial notebooks of losc-tutorial as a state machine.       *)
(*                                                                         *)
(* Spec     the matched-filter notebook (src/unnamed/part_001) and the     *)
(*          visualisation notebook (src/unnamed/part_000), one action per  *)
(*          statement, the kernel namespace as the state.                  *)
(* SpecOps  every short sequence of the notebooks' TimeSeries operations   *)
(*          applied to one series.                                         *)
(* SpecMF   the matched filter as an exact transform pair on a ring of 8   *)
(*          samples: filter, crop, peak search, shift the data, again.     *)
(* SpecStages  psd, interpolate, inverse_spectrum_truncation and           *)
(*          matched_filter on short series, rejected arguments included.   *)
(* SpecRT   to_frequencyseries() followed by to_timeseries(), exact, on    *)
(*          every short series.                                            *)
(* SpecFir  highpass_fir and lowpass_fir with and without                  *)
(*          remove_corrupted, applied in a row to one series.              *)
(* SpecSlice  resampling, the FIR filters and time_slice in a row, the     *)
(*          zoom on the merger.                                            *)
(* SpecPar  the templates of a bank searched by concurrent workers against *)
(*          one conditioned series and one PSD, every interleaving.        *)
(*                                                                         *)
(* Time is counted in ticks of the raw sample interval (1/4096 s in the    *)
(* notebook).  A TimeSeries is a record [data, delta_t, start_time]; each  *)
(* sample carries its value (re, im), the time `src' of the measurement it *)
(* stands for, and `bad': whether it was computed from a filter window     *)
(* that wrapped around the ends of its input.                              *)
(***************************************************************************)
EXTENDS Integers, Sequences, FiniteSets, TLC

\* ------------------------------------------------------------------ scale
\* Samples per second after resampling (2048 in the notebook).
SampleRate == 1
\* resample_to_delta_t(..., 1.0/2048) on 4096 Hz data: the decimation ratio.
Decim == 2
RawRate == SampleRate * Decim
TicksPerSec == RawRate
\* "Entire 32 seconds of data round GW150914"
StrainDuration == 32
\* Largest injected amplitude of the inputs.
MaxAmp == 2
\* Samples of the waveform after its merger sample (the ringdown).
MaxPostMerger == 1

\* ------------------------------------------------------------- arithmetic
Max(a, b) == IF a >= b THEN a ELSE b
Min(a, b) == IF a <= b THEN a ELSE b
Abs(a) == IF a >= 0 THEN a ELSE -a
\* a mod n in 0..n-1, also for negative a.
Mod(a, n) == ((a % n) + n) % n

\* The sum of the first k elements of s.
RECURSIVE SumTo(_, _)
SumTo(s, k) == IF k = 0 THEN 0 ELSE SumTo(s, k - 1) + s[k]
SeqSum(s) == SumTo(s, Len(s))

\* ---------------------------------------------------------------- samples
\* A sample value is a complex number re + im*i + z1*w + z3*w^3, w = exp(i pi/4)
\* the primitive 8th root of unity (w^2 = i, w^4 = -1), with integer
\* coefficients: the values an 8-point transform of integer data takes.  A
\* real sample has im = z1 = z3 = 0.  The value is divided by den (1 unless
\* the series was divided by a norm).
CSample(c, src, bad) ==
    [re |-> c[1], z1 |-> c[2], im |-> c[3], z3 |-> c[4], den |-> 1,
     src |-> src, bad |-> bad]
Sample(re, im, src, bad) == CSample(<<re, 0, im, 0>>, src, bad)
Coef(x) == <<x.re, x.z1, x.im, x.z3>>
CZero == <<0, 0, 0, 0>>
CAdd(c, d) == [k \in 1..4 |-> c[k] + d[k]]
CScale(a, c) == [k \in 1..4 |-> a * c[k]]
\* (sum c_i w^i)(sum d_j w^j) with w^4 = -1.
CMul(c, d) ==
    [k \in 1..4 |->
        SeqSum([i \in 1..4 |->
            LET j == k - i + 1
            IN  IF j >= 1 THEN c[i] * d[j] ELSE -(c[i] * d[j + 4])])]
\* conj(w) = -w^3, conj(w^2) = -w^2, conj(w^3) = -w.
CConj(c) == <<c[1], -c[4], -c[3], -c[2]>>
\* w^j
Root(j) ==
    LET m == Mod(j, 8)
        sgn == IF m >= 4 THEN -1 ELSE 1
    IN  [k \in 1..4 |-> IF k = (m % 4) + 1 THEN sgn ELSE 0]
\* |c|^2 = c * conj(c) = a + b*sqrt(2), as the pair <<a, b>>
\* (c * conj(c) = a + b*(w - w^3) and w - w^3 = sqrt(2)).
CAbsSq(c) == LET m == CMul(c, CConj(c)) IN <<m[1], m[2]>>
AbsSq(x) == CAbsSq(Coef(x))
\* a + b*sqrt(2) > 0
RootPos(a, b) ==
    \/ a > 0 /\ b >= 0
    \/ a >= 0 /\ b > 0
    \/ a > 0 /\ b < 0 /\ a * a > 2 * b * b
    \/ a < 0 /\ b > 0 /\ 2 * b * b > a * a
\* m > n for magnitudes m = <<a, b>>, n = <<a', b'>>
MagGreater(m, n) == RootPos(m[1] - n[1], m[2] - n[2])

\* ------------------------------------------------------------- TimeSeries
NoSeries == [data |-> <<>>, delta_t |-> 0, start_time |-> 0]
TimeSeries(data, delta_t, start_time) ==
    [data |-> data, delta_t |-> delta_t, start_time |-> start_time]
\* ts.sample_rate, in samples per second.
SampleRateOf(ts) == TicksPerSec \div ts.delta_t
\* ts.sample_times
SampleTimes(ts) ==
    [i \in 1..Len(ts.data) |-> ts.start_time + (i - 1) * ts.delta_t]
\* ts.duration, in ticks.
Duration(ts) == Len(ts.data) * ts.delta_t
EndTime(ts) == ts.start_time + Duration(ts)
\* self[s:e] of a TimeSeries (0-based, e exclusive): the epoch moves by s.
Slice(ts, s, e) ==
    TimeSeries(SubSeq(ts.data, s + 1, e), ts.delta_t,
               ts.start_time + s * ts.delta_t)
\* ts.crop(left, right), left and right in seconds: int(left * sample_rate)
\* samples go at the start, int(right * sample_rate) at the end.
CropStartSamples(ts, left) == (left * TicksPerSec) \div ts.delta_t
CropEndIndex(ts, right) == Len(ts.data) - (right * TicksPerSec) \div ts.delta_t
Crop(ts, left, right) ==
    Slice(ts, CropStartSamples(ts, left), CropEndIndex(ts, right))

\* A cyclic (wraparound) filter with an odd number of integer taps: sample i
\* is the weighted sum of the samples within half a filter length of i, the
\* window wrapping around the ends of the vector.  A sample whose window
\* wrapped, or read a corrupted sample, is corrupted.
HalfLen(taps) == (Len(taps) - 1) \div 2
FilterCyclic(ts, taps) ==
    LET n == Len(ts.data)
        h == HalfLen(taps)
        at(j) == ts.data[Mod(j - 1, n) + 1]
        val(i) == SeqSum([k \in 1..Len(taps) |-> taps[k] * at(i + k - 1 - h).re])
        wraps(i) == i - h < 1 \/ i + h > n
        readsBad(i) == \E m \in -h..h : at(i + m).bad
    IN  TimeSeries(
            [i \in 1..n |->
                Sample(val(i), 0, ts.data[i].src, wraps(i) \/ readsBad(i))],
            ts.delta_t, ts.start_time)

\* highpass(strain, 15.0): removes the slowly varying content; the filter
\* rings off over its length at both boundaries.
HighpassTaps == <<-1, 2, -1>>
Highpass(ts) == FilterCyclic(ts, HighpassTaps)

\* resample_to_delta_t(ts, delta_t): a low-pass filter followed by keeping
\* every (delta_t / ts.delta_t)-th sample; the epoch is kept.  The low-pass
\* kernel reaches at least one kept sample to either side.
LowpassTaps == <<1, 2, 3, 2, 1>>
\* The resampler that passes on only the flag of the sample it keeps.
ResampleKeepsFlags(ts, delta_t) ==
    LET r  == delta_t \div ts.delta_t
        lp == FilterCyclic(ts, LowpassTaps)
        n  == Len(ts.data) \div r
    IN  TimeSeries([i \in 1..n |->
                       [lp.data[(i - 1) * r + 1] EXCEPT
                           !.bad = ts.data[(i - 1) * r + 1].bad]],
                   delta_t, ts.start_time)
ResampleToDeltaT(ts, delta_t) ==
    LET r  == delta_t \div ts.delta_t
        lp == FilterCyclic(ts, LowpassTaps)
        n  == Len(ts.data) \div r
    IN  TimeSeries([i \in 1..n |-> lp.data[(i - 1) * r + 1]],
                   delta_t, ts.start_time)

\* ---------------------------------------------------------------- waveform
\* get_td_waveform(..., delta_t, f_lower): the plus polarisation of a merger
\* waveform of n samples of which `post' follow the merger sample.  The
\* waveform begins at the start of the vector and its merger is stamped
\* time zero, so its start time is negative.  It oscillates at four samples
\* a cycle with a growing amplitude.
GetTdWaveform(n, post, delta_t) ==
    LET m0 == n - 1 - post
    IN  TimeSeries(
            [i \in 1..n |->
                Sample(IF (i - 1) % 4 < 2 THEN i ELSE -i, 0,
                       (i - 1 - m0) * delta_t, FALSE)],
            delta_t, -m0 * delta_t)

\* ts.resize(n): the vector is cut or zero-padded at its end to n samples.
Resize(ts, n) ==
    TimeSeries(
        [i \in 1..n |->
            IF i <= Len(ts.data) THEN ts.data[i]
            ELSE Sample(0, 0, ts.start_time + (i - 1) * ts.delta_t, FALSE)],
        ts.delta_t, ts.start_time)

\* A shift along a line instead of a ring: the samples pushed past an end of
\* the vector are lost and zeros enter at the other end.
CyclicTimeShiftPadded(ts, dt) ==
    LET n == Len(ts.data)
        k == dt \div ts.delta_t
    IN  TimeSeries([i \in 1..n |->
                       IF i - k \in 1..n THEN ts.data[i - k]
                       ELSE Sample(0, 0, ts.start_time + (i - 1) * ts.delta_t, FALSE)],
                   ts.delta_t, ts.start_time)
\* ts.cyclic_time_shift(dt): "rotates the vector by a fixed amount of time.
\* It treats the data as if it were on a ring.  Note that time stamps are
\* *not* in general affected, but the true position in the vector is."
\* A positive dt moves the samples to later positions.
CyclicTimeShift(ts, dt) ==
    LET n == Len(ts.data)
        k == dt \div ts.delta_t
    IN  TimeSeries([i \in 1..n |-> ts.data[Mod(i - 1 - k, n) + 1]],
                   ts.delta_t, ts.start_time)

\* --------------------------------------------------------------------- PSD
\* A PSD is a FrequencySeries: bins k = 0..n/2 of spacing 1/inv_df, tagged
\* with the sample interval of the data it was estimated from and with the
\* length, in samples, that the time-domain filter 1/PSD was truncated to
\* (0: not truncated).
NoPsd == [data |-> <<>>, inv_df |-> 0, delta_t |-> 0, seg_len |-> 0,
          filt_len |-> 0, flow |-> 0]
\* The sign of cos and sin of 2 pi p / n (a square-wave basis).
SqCos(p, n) ==
    LET q == Mod(p, n)
    IN  IF 4 * q < n \/ 4 * q > 3 * n THEN 1
        ELSE IF 4 * q = n \/ 4 * q = 3 * n THEN 0 ELSE -1
SqSin(p, n) ==
    LET q == Mod(p, n)
    IN  IF q = 0 \/ 2 * q = n THEN 0 ELSE IF 2 * q < n THEN 1 ELSE -1
\* The difference of the squares of the two quadratures.
PeriodogramCross(seg, k) ==
    LET n == Len(seg)
        c == SeqSum([i \in 1..n |-> seg[i].re * SqCos(k * (i - 1), n)])
        d == SeqSum([i \in 1..n |-> seg[i].re * SqSin(k * (i - 1), n)])
    IN  c * c - d * d
\* The power of segment seg (a sequence of samples) in bin k.
Periodogram(seg, k) ==
    LET n == Len(seg)
        c == SeqSum([i \in 1..n |-> seg[i].re * SqCos(k * (i - 1), n)])
        d == SeqSum([i \in 1..n |-> seg[i].re * SqSin(k * (i - 1), n)])
    IN  c * c + d * d
\* A frequency f of the notebooks, in Hz, on the scale of the model, where
\* SampleRate stands for the 2048 Hz of the conditioned data.
Hz(f) == (f * SampleRate) \div 2048
\* A cutoff is representable for data of sample interval delta_t when it
\* lies between zero and the Nyquist frequency; else FrequencyRangeError.
CutoffInRange(flow, delta_t) == flow >= 0 /\ 2 * flow * delta_t <= TicksPerSec
\* The estimate that takes a series of any length.
CanPsdAlways(ts, seg_sec) == Len(ts.data) >= 1
\* ts.psd(seg_sec) needs a series at least one segment long; a shorter
\* series raises InsufficientDataError.
CanPsd(ts, seg_sec) == Duration(ts) >= seg_sec * TicksPerSec
\* ts.psd(seg_sec): Welch's method, segments of seg_sec seconds overlapping
\* by half, the segments' periodograms summed per bin.
WelchSegments(ts, seg_sec) ==
    LET m    == seg_sec * SampleRateOf(ts)
        step == Max(1, m \div 2)
        cnt  == (Len(ts.data) - m) \div step + 1
    IN  [j \in 1..cnt |-> SubSeq(ts.data, (j - 1) * step + 1, (j - 1) * step + m)]
Psd(ts, seg_sec) ==
    LET segs == WelchSegments(ts, seg_sec)
        m    == seg_sec * SampleRateOf(ts)
    IN  [data |-> [b \in 1..(m \div 2 + 1) |->
                      SeqSum([j \in 1..Len(segs) |-> Periodogram(segs[j], b - 1)])],
         inv_df |-> m * ts.delta_t, delta_t |-> ts.delta_t,
         seg_len |-> m, filt_len |-> 0, flow |-> 0]
\* interpolate(psd, delta_f): the PSD on the grid of spacing delta_f = 1/inv_df,
\* each new bin taken linearly between the two old bins around it.
Interpolate(psd, inv_df) ==
    LET n   == inv_df \div psd.delta_t
        old == Len(psd.data)
        \* new bin b-1 lies at (b-1) * psd.inv_df / inv_df old bins
        lo(b) == Min(old, ((b - 1) * psd.inv_df) \div inv_df + 1)
        hi(b) == Min(old, lo(b) + 1)
        fr(b) == ((b - 1) * psd.inv_df) % inv_df
    IN  [psd EXCEPT
            !.data = [b \in 1..(n \div 2 + 1) |->
                        (psd.data[lo(b)] * (inv_df - fr(b))
                            + psd.data[hi(b)] * fr(b)) \div inv_df],
            !.inv_df = inv_df]
\* inverse_spectrum_truncation(psd, max_filter_len, low_frequency_cutoff):
\* the time-domain filter 1/PSD is cut to max_filter_len samples around
\* its origin, and frequencies below the cutoff are left out.
\* The truncation to any length.
CanTruncateAlways(p, max_filter_len) == max_filter_len >= 1
\* The truncation length must not exceed the length of the segments the
\* PSD was estimated from; a longer one raises ConfigurationError.
CanTruncate(p, max_filter_len) == max_filter_len <= p.seg_len
InverseSpectrumTruncation(psd, max_filter_len, flow) ==
    [psd EXCEPT !.filt_len = max_filter_len, !.flow = flow]

\* ----------------------------------------------------------- matched filter
\* The position of a template sample on the ring as a lag relative to the
\* first bin: the second half of the vector holds the negative lags.
Lag(pos, n) == IF 2 * pos < n THEN pos ELSE pos - n
\* The 90 degrees out of phase template (for a waveform of four samples a
\* cycle: the template one sample later).
Quadrature(ts) == CyclicTimeShift(ts, ts.delta_t)
\* matched_filter(template, data, psd): "the real portion corresponds to
\* the SNR associated with directly filtering the template with the data.
\* The imaginary portion corresponds to filtering with a template that is
\* 90 degrees out of phase."  The data is weighted by the filter 1/PSD, of
\* psd.filt_len samples around its origin; both filters are cyclic.  The
\* result has the data's epoch and sample interval.
MatchedFilter(template, data, psd) ==
    LET n    == Len(data.data)
        P    == psd.filt_len \div 2
        quad == Quadrature(template)
        dat(j) == data.data[Mod(j, n) + 1]
        \* the data weighted by 1/PSD, at 0-based position j
        w(j) == SeqSum([m \in 1..(2 * P + 1) |->
                    (P + 1 - Abs(m - 1 - P)) * dat(j + m - 1 - P).re])
        W == [j \in 1..n |-> w(j - 1)]
        \* the positions where t is not zero: the other terms of the sum
        \* vanish
        nz(t) == SelectSeq([i \in 1..n |-> i], LAMBDA i : t.data[i].re # 0)
        nzTemplate == nz(template)
        nzQuad == nz(quad)
        corr(j, t, at) ==
            SeqSum([m \in 1..Len(at) |->
                t.data[at[m]].re * W[Mod(j + at[m] - 1, n) + 1]])
        support == {i \in 0..(n - 1) :
                        template.data[i + 1].re # 0 \/ quad.data[i + 1].re # 0}
        \* the data positions SNR sample j is computed from
        window(j) == UNION {(j + Lag(i, n) - P)..(j + Lag(i, n) + P) : i \in support}
        bad(j) == \E r \in window(j) : r < 0 \/ r > n - 1 \/ dat(r).bad
    IN  TimeSeries(
            [j \in 1..n |->
                Sample(corr(j - 1, template, nzTemplate),
                       corr(j - 1, quad, nzQuad),
                       data.data[j].src, bad(j - 1))],
            data.delta_t, data.start_time)

\* The 0-based index of the last sample of largest magnitude.
ArgmaxLast(ts) ==
    CHOOSE p \in 0..(Len(ts.data) - 1) :
        /\ \A i \in 0..(Len(ts.data) - 1) :
              ~MagGreater(AbsSq(ts.data[i + 1]), AbsSq(ts.data[p + 1]))
        /\ \A i \in (p + 1)..(Len(ts.data) - 1) :
              MagGreater(AbsSq(ts.data[p + 1]), AbsSq(ts.data[i + 1]))
\* abs(snr).numpy().argmax(): the 0-based index of the first sample of
\* largest magnitude.
Argmax(ts) ==
    CHOOSE p \in 0..(Len(ts.data) - 1) :
        /\ \A i \in 0..(Len(ts.data) - 1) :
              ~MagGreater(AbsSq(ts.data[i + 1]), AbsSq(ts.data[p + 1]))
        /\ \A i \in 0..(p - 1) :
              MagGreater(AbsSq(ts.data[p + 1]), AbsSq(ts.data[i + 1]))

\* -------------------------------------------------------------- FIR filters
\* The taps of a filter of half-length `order' (2 * order + 1 coefficients).
HighpassFirTaps(order) ==
    [k \in 1..(2 * order + 1) |-> IF k = order + 1 THEN 2 * order ELSE -1]
LowpassFirTaps(order) ==
    [k \in 1..(2 * order + 1) |-> order + 1 - Abs(k - 1 - order)]
\* The filter applied without wraparound: a sample closer than `order' to
\* either end has no full window; "corruption regions contain zeros".
FirZeroFilter(ts, taps) ==
    LET n == Len(ts.data)
        h == HalfLen(taps)
        full(i) == i - h >= 1 /\ i + h <= n
        val(i) == SeqSum([k \in 1..Len(taps) |-> taps[k] * ts.data[i + k - 1 - h].re])
    IN  [ts EXCEPT !.data = [i \in 1..n |->
            IF full(i)
            THEN [ts.data[i] EXCEPT
                    !.re = val(i),
                    !.bad = \E m \in -h..h : ts.data[i + m].bad]
            ELSE [ts.data[i] EXCEPT !.re = 0, !.bad = TRUE]]]
\* A filter that drops the corrupted region whatever remove_corrupted says.
FirFilterAlwaysTrims(ts, taps, remove_corrupted) ==
    Slice(FirZeroFilter(ts, taps), HalfLen(taps), Len(ts.data) - HalfLen(taps))
\* ts.highpass_fir(frequency, order, remove_corrupted) and ts.lowpass_fir:
\* the corrupted region is dropped (ts[order:len(ts)-order]) or left zeroed.
FirFilter(ts, taps, remove_corrupted) ==
    LET z == FirZeroFilter(ts, taps)
    IN  IF remove_corrupted
        THEN Slice(z, HalfLen(taps), Len(ts.data) - HalfLen(taps))
        ELSE z
HighpassFir(ts, order, remove_corrupted) ==
    FirFilter(ts, HighpassFirTaps(order), remove_corrupted)
LowpassFir(ts, order, remove_corrupted) ==
    FirFilter(ts, LowpassFirTaps(order), remove_corrupted)

\* ts.whiten(segment_duration, max_filter_duration): the series divided, in
\* the frequency domain, by the square root of its own PSD, a cyclic filter
\* of max_filter_duration seconds; half of that is dropped at either end.
WhitenTaps(half) == [k \in 1..(2 * half + 1) |-> IF k = half + 1 THEN 2 * half ELSE -1]
Whiten(ts, segment_duration, max_filter_duration) ==
    LET half == (max_filter_duration * SampleRateOf(ts)) \div 2
        w    == FilterCyclic(ts, WhitenTaps(half))
    IN  Slice(w, half, Len(ts.data) - half)

\* (ts.to_frequencyseries() / psd**0.5).to_timeseries(): the division is
\* bin by bin, so the PSD must have the bins of the series' transform: as
\* many, at the same spacing.
CanDivideByPsd(ts, p) ==
    /\ Len(p.data) = Len(ts.data) \div 2 + 1
    /\ p.inv_df = Duration(ts)
\* The series that comes back is the series filtered, around the ring, by
\* the time-domain filter 1/sqrt(PSD), half of p.filt_len to either side.
DivideByAsd(ts, p) == FilterCyclic(ts, WhitenTaps(p.filt_len \div 2))

\* ts.roll(shift): the samples move `shift' positions towards the end, those
\* pushed off the end come back at the start.
Roll(ts, shift) ==
    LET n == Len(ts.data)
    IN  [ts EXCEPT !.data = [i \in 1..n |-> ts.data[Mod(i - 1 - shift, n) + 1]]]

\* ts.time_slice(start, end): the samples from time start up to time end;
\* a time outside the series is an error.
CanTimeSlice(ts, start, end) == start >= ts.start_time /\ end <= EndTime(ts)
TimeSlice(ts, start, end) ==
    Slice(ts, (start - ts.start_time) \div ts.delta_t,
              (end - ts.start_time) \div ts.delta_t)

\* ------------------------------------------------------------- alignment
\* The largest r with r*r <= a.
Isqrt(a) == CHOOSE r \in 0..a : r * r <= a /\ (r + 1) * (r + 1) > a
\* sigma(ts, psd, low_frequency_cutoff): the norm of the template, the
\* square root of its overlap with itself (at least 1).
Sigma(ts, p) ==
    Max(1, Isqrt(SeqSum([i \in 1..Len(ts.data) |-> ts.data[i].re * ts.data[i].re])))
\* ts /= a
Divide(ts, a) ==
    [ts EXCEPT !.data = [i \in 1..Len(ts.data) |->
                            [ts.data[i] EXCEPT !.den = ts.data[i].den * a]]]
\* ts *= a
Scale(ts, a) ==
    [ts EXCEPT !.data = [i \in 1..Len(ts.data) |->
                            [ts.data[i] EXCEPT !.re = a * ts.data[i].re]]]
\* (ts.to_frequencyseries() * c).to_timeseries() for a complex number c:
\* every frequency is scaled by |c| and turned by the phase of c; the real
\* series that comes back is re(c) times the series minus im(c) times the
\* series 90 degrees out of phase.
ScalePhase(ts, c) ==
    LET quad == Quadrature(ts)
    IN  [ts EXCEPT !.data = [i \in 1..Len(ts.data) |->
            [ts.data[i] EXCEPT !.re = c.re * ts.data[i].re
                                        - c.im * quad.data[i].re]]]
\* ts.start_time = t
SetStartTime(ts, t) == [ts EXCEPT !.start_time = t]
\* a - b: sample by sample; the operands must have the same length, sample
\* interval and epoch.
CanSubtract(a, b) ==
    /\ Len(a.data) = Len(b.data)
    /\ a.delta_t = b.delta_t
    /\ a.start_time = b.start_time
Subtract(a, b) ==
    [a EXCEPT !.data = [i \in 1..Len(a.data) |->
        [a.data[i] EXCEPT
            !.re = a.data[i].re * b.data[i].den - b.data[i].re * a.data[i].den,
            !.den = a.data[i].den * b.data[i].den,
            !.bad = a.data[i].bad \/ b.data[i].bad]]]

\* ------------------------------------------------------ the kernel's state
VARIABLES
    pc,         \* the next statement of the notebook
    heap,       \* the TimeSeries objects created so far, by object id
    ns,         \* the namespace: variable name -> object id (0: unbound)
    born,       \* ghost: each object as it was when it was created
    owner,      \* ghost: the name each object was first bound to
    psd,        \* the variable psd (a FrequencySeries)
    peak,       \* the variable peak (-1: unset)
    snrp,       \* the variable snrp
    time,       \* the variable time
    readBad,    \* ghost: a stage has read a wraparound-corrupted sample
    searched,   \* ghost: the series the peak search scanned
    ifo,        \* the loop variable ifo of the visualisation notebook
    ops         \* ghost: the operations applied so far, with their operands

vars == <<pc, heap, ns, born, owner, psd, peak, snrp, time, readBad, searched,
          ifo, ops>>

\* The variables of the matched-filter notebook, and of the visualisation
\* notebook (data[ifo] and whitened[ifo] by detector).
Names == {"strain", "conditioned", "hp", "template", "snr", "aligned",
          "subtracted", "white_data", "tapered", "white_template", "whitened",
          "data_H1", "data_L1", "whitened_H1", "whitened_L1", "bpsd", "zoom",
          "ts", "fs"}
DataName(d) == IF d = "H1" THEN "data_H1" ELSE "data_L1"
WhitenedName(d) == IF d = "H1" THEN "whitened_H1" ELSE "whitened_L1"
Bound(name) == ns[name] # 0
Obj(name) == heap[ns[name]]
HasBad(ts) == \E i \in 1..Len(ts.data) : ts.data[i].bad

\* name = <a new series>: the value is a new object, the name refers to it.
Bind(name, value) ==
    /\ heap' = Append(heap, value)
    /\ born' = Append(born, value)
    /\ owner' = Append(owner, name)
    /\ ns' = [ns EXCEPT ![name] = Len(heap) + 1]
\* An operation in place on the object `name' refers to.
Mutate(name, value) ==
    /\ heap' = [heap EXCEPT ![ns[name]] = value]
    /\ UNCHANGED <<born, owner, ns>>
\* The object a statement creates.
NewObj == Len(heap) + 1
\* The data flow of a statement of the notebooks, kept in ops: the objects it
\* read and the object it wrote, by object id; 0 stands for the variable psd,
\* -1 for the peak (peak, snrp, time), -2 for a plot.
LogOp(op, inp, out) ==
    ops' = Append(ops, [op |-> op, a |-> 0, b |-> 0, inp |-> inp, out |-> out])

\* ------------------------------------------------------------------ inputs
\* merger.strain('H1'): 32 seconds around the merger at the raw rate, noise
\* with a transient of amplitude amp at raw sample inj.
StrainStart == 1000 * TicksPerSec
Noise(i, seed) == ((i * i * (seed + 1) + 3 * i) % 7) - 3
MergerStrain(seed, amp, inj) ==
    TimeSeries(
        [i \in 1..(StrainDuration * RawRate) |->
            Sample(Noise(i, seed) + (IF i = inj THEN 8 * amp ELSE 0), 0,
                   StrainStart + (i - 1), FALSE)],
        1, StrainStart)
InjectionSites == {(StrainDuration * RawRate) \div 4 + 1,
                   (StrainDuration * RawRate) \div 2 + 1,
                   (3 * StrainDuration * RawRate) \div 4 + 1}

\* -------------------------------------------------------- program constants
\* strain.crop(2, 2)
CondCropStart == 2
CondCropEnd == 2
\* conditioned.psd(4)
PsdSegment == 4
\* inverse_spectrum_truncation(psd, 4 * conditioned.sample_rate, ...)
PsdFilterSec == 4
\* "4 additional seconds at the beginning to account for the template length"
TemplateSec == 4
\* snr.crop(4 + 4, 4)
SnrCropStart == 4 + 4
SnrCropEnd == 4
\* data[ifo].whiten(4, 4)
WhitenSegment == 4
WhitenFilter == 4
\* m.time: the merger lies in the middle of the 32 seconds.
MergerTime == StrainStart + (StrainDuration \div 2) * TicksPerSec
\* highpass_fir(30, 512).lowpass_fir(250, 512): the half-length of the FIR
\* filters, in samples (512 of 131072 samples in the notebook).
FirOrder == 1
\* bpsd.roll(int(bpsd.sample_rate * .007)): the shift in samples.
RollShift == 1
\* bpsd.time_slice(m.time - 0.2, m.time + .1): the window, in ticks.
ZoomBefore == 2
ZoomAfter == 1

\* ------------------------------------------------------------- statements
\* strain = merger.strain('H1')
FetchStrain ==
    /\ pc = "strain"
    /\ \E seed \in 0..1, amp \in 0..MaxAmp, inj \in InjectionSites :
          Bind("strain", MergerStrain(seed, amp, inj))
    /\ LogOp("strain", {}, NewObj)
    /\ pc' = "condition"
    /\ UNCHANGED <<psd, peak, snrp, time, readBad, searched, ifo>>

\* strain = resample_to_delta_t(highpass(strain, 15.0), 1.0/2048)
ConditionStrain ==
    /\ pc = "condition"
    /\ Bind("strain", ResampleToDeltaT(Highpass(Obj("strain")), Decim))
    /\ LogOp("condition", {ns["strain"]}, NewObj)
    /\ pc' = "crop"
    /\ UNCHANGED <<psd, peak, snrp, time, readBad, searched, ifo>>

\* The crop with the start of the series left in: strain.crop(0, 2).
CropStrainEndOnly ==
    /\ pc = "crop"
    /\ Bind("conditioned", Crop(Obj("strain"), 0, CondCropEnd))
    /\ LogOp("crop", {ns["strain"]}, NewObj)
    /\ pc' = "psd"
    /\ UNCHANGED <<psd, peak, snrp, time, readBad, searched, ifo>>

\* conditioned = strain.crop(2, 2)
CropStrain ==
    /\ pc = "crop"
    /\ Bind("conditioned", Crop(Obj("strain"), CondCropStart, CondCropEnd))
    /\ LogOp("crop", {ns["strain"]}, NewObj)
    /\ pc' = "psd"
    /\ UNCHANGED <<psd, peak, snrp, time, readBad, searched, ifo>>

\* psd = conditioned.psd(4)
EstimatePsd ==
    /\ pc = "psd"
    /\ IF CanPsd(Obj("conditioned"), PsdSegment)
       THEN /\ psd' = Psd(Obj("conditioned"), PsdSegment)
            /\ readBad' = (readBad \/ HasBad(Obj("conditioned")))
            /\ LogOp("psd", {ns["conditioned"]}, 0)
            /\ pc' = "interpolate"
       ELSE /\ pc' = "InsufficientDataError"
            /\ UNCHANGED <<psd, readBad, ops>>
    /\ UNCHANGED <<heap, ns, born, owner, peak, snrp, time, searched, ifo>>

\* The cell without its interpolation: the PSD keeps the bins of the estimate.
InterpolatePsdSkipped ==
    /\ pc = "interpolate"
    /\ pc' = "truncate"
    /\ UNCHANGED psd
    /\ UNCHANGED <<heap, ns, born, owner, peak, snrp, time, readBad, searched, ifo, ops>>

\* psd = interpolate(psd, conditioned.delta_f)
InterpolatePsd ==
    /\ pc = "interpolate"
    /\ psd' = Interpolate(psd, Duration(Obj("conditioned")))
    /\ LogOp("interpolate", {0, ns["conditioned"]}, 0)
    /\ pc' = "truncate"
    /\ UNCHANGED <<heap, ns, born, owner, peak, snrp, time, readBad, searched, ifo>>

\* psd = inverse_spectrum_truncation(psd, 4 * conditioned.sample_rate,
\*                                   low_frequency_cutoff=15)
TruncatePsd ==
    /\ pc = "truncate"
    /\ LET n == PsdFilterSec * SampleRateOf(Obj("conditioned"))
       IN  IF ~CanTruncate(psd, n)
           THEN pc' = "ConfigurationError" /\ UNCHANGED <<psd, ops>>
           ELSE IF ~CutoffInRange(Hz(15), psd.delta_t)
           THEN pc' = "FrequencyRangeError" /\ UNCHANGED <<psd, ops>>
           ELSE /\ psd' = InverseSpectrumTruncation(psd, n, Hz(15))
                /\ LogOp("truncate", {0, ns["conditioned"]}, 0)
                /\ pc' = "waveform"
    /\ UNCHANGED <<heap, ns, born, owner, peak, snrp, time, readBad, searched, ifo>>

\* hp, hc = get_td_waveform(..., delta_t=conditioned.delta_t, f_lower=20)
\* The waveform is "so short a template": at most TemplateSec seconds.
MakeWaveform ==
    /\ pc = "waveform"
    /\ \E n \in 1..(TemplateSec * SampleRateOf(Obj("conditioned"))) :
       \E post \in 0..Min(MaxPostMerger, n - 1) :
          Bind("hp", GetTdWaveform(n, post, Obj("conditioned").delta_t))
    /\ LogOp("waveform", {ns["conditioned"]}, NewObj)
    /\ pc' = "resize"
    /\ UNCHANGED <<psd, peak, snrp, time, readBad, searched, ifo>>

\* hp.resize(len(conditioned))
ResizeWaveform ==
    /\ pc = "resize"
    /\ Mutate("hp", Resize(Obj("hp"), Len(Obj("conditioned").data)))
    /\ LogOp("resize", {ns["hp"], ns["conditioned"]}, ns["hp"])
    /\ pc' = "shift"
    /\ UNCHANGED <<psd, peak, snrp, time, readBad, searched, ifo>>

\* template = hp.cyclic_time_shift(hp.start_time)
ShiftWaveform ==
    /\ pc = "shift"
    /\ Bind("template", CyclicTimeShift(Obj("hp"), Obj("hp").start_time))
    /\ LogOp("cyclic_time_shift", {ns["hp"]}, NewObj)
    /\ pc' = "matched_filter"
    /\ UNCHANGED <<psd, peak, snrp, time, readBad, searched, ifo>>

\* snr = matched_filter(template, conditioned, psd=psd, low_frequency_cutoff=20)
RunMatchedFilter ==
    /\ pc = "matched_filter"
    /\ Bind("snr", MatchedFilter(Obj("template"), Obj("conditioned"), psd))
    /\ readBad' = (readBad \/ HasBad(Obj("conditioned")))
    /\ LogOp("matched_filter", {ns["template"], ns["conditioned"], 0}, NewObj)
    /\ pc' = "snr_crop"
    /\ UNCHANGED <<psd, peak, snrp, time, searched, ifo>>

\* The crop by the larger of the template and the filter length at both
\* ends: snr.crop(max(4, 4), max(4, 4)).
CropSnrMax ==
    /\ pc = "snr_crop"
    /\ Bind("snr", Crop(Obj("snr"), Max(TemplateSec, PsdFilterSec),
                        Max(TemplateSec, PsdFilterSec)))
    /\ LogOp("crop", {ns["snr"]}, NewObj)
    /\ pc' = "peak"
    /\ UNCHANGED <<psd, peak, snrp, time, readBad, searched, ifo>>

\* The crop with its arguments converted to samples at the raw rate of the
\* strain instead of the rate of the series.
CropSnrAtRawRate ==
    /\ pc = "snr_crop"
    /\ Bind("snr", Slice(Obj("snr"), SnrCropStart * TicksPerSec,
                         Len(Obj("snr").data) - SnrCropEnd * TicksPerSec))
    /\ LogOp("crop", {ns["snr"]}, NewObj)
    /\ pc' = "peak"
    /\ UNCHANGED <<psd, peak, snrp, time, readBad, searched, ifo>>
\* snr = snr.crop(4 + 4, 4)
CropSnr ==
    /\ pc = "snr_crop"
    /\ Bind("snr", Crop(Obj("snr"), SnrCropStart, SnrCropEnd))
    /\ LogOp("crop", {ns["snr"]}, NewObj)
    /\ pc' = "peak"
    /\ UNCHANGED <<psd, peak, snrp, time, readBad, searched, ifo>>

\* peak = abs(snr).numpy().argmax(); snrp = snr[peak]
\* time = snr.sample_times[peak]
FindPeak ==
    /\ pc = "peak"
    /\ LET p == Argmax(Obj("snr"))
       IN  /\ peak' = p
           /\ snrp' = Obj("snr").data[p + 1]
           /\ time' = SampleTimes(Obj("snr"))[p + 1]
    /\ searched' = Obj("snr")
    /\ readBad' = (readBad \/ HasBad(Obj("snr")))
    /\ LogOp("peak", {ns["snr"]}, -1)
    /\ pc' = "align"
    /\ UNCHANGED <<heap, ns, born, owner, psd, ifo>>

\* The shift measured from the start of the cropped SNR series:
\* aligned = template.cyclic_time_shift(time - snr.start_time).
AlignTemplateFromSnrStart ==
    /\ pc = "align"
    /\ Bind("aligned",
            CyclicTimeShift(Obj("template"), time - Obj("snr").start_time))
    /\ LogOp("align", {ns["template"], ns["snr"], -1}, NewObj)
    /\ pc' = "normalise"
    /\ UNCHANGED <<psd, peak, snrp, time, readBad, searched, ifo>>

\* dt = time - conditioned.start_time
\* aligned = template.cyclic_time_shift(dt)
AlignTemplate ==
    /\ pc = "align"
    /\ Bind("aligned",
            CyclicTimeShift(Obj("template"), time - Obj("conditioned").start_time))
    /\ LogOp("align", {ns["template"], ns["conditioned"], -1}, NewObj)
    /\ pc' = "normalise"
    /\ UNCHANGED <<psd, peak, snrp, time, readBad, searched, ifo>>

\* aligned /= sigma(aligned, psd=psd, low_frequency_cutoff=20.0)
NormaliseAligned ==
    /\ pc = "normalise"
    /\ Mutate("aligned", Divide(Obj("aligned"), Sigma(Obj("aligned"), psd)))
    /\ LogOp("sigma", {ns["aligned"], 0}, ns["aligned"])
    /\ pc' = "scale"
    /\ UNCHANGED <<psd, peak, snrp, time, readBad, searched, ifo>>

\* aligned = (aligned.to_frequencyseries() * snrp).to_timeseries()
ScaleAligned ==
    /\ pc = "scale"
    /\ Bind("aligned", ScalePhase(Obj("aligned"), snrp))
    /\ LogOp("scale", {ns["aligned"], -1}, NewObj)
    /\ pc' = "set_start"
    /\ UNCHANGED <<psd, peak, snrp, time, readBad, searched, ifo>>

\* The cell without its last statement: aligned keeps its start time.
SetAlignedStartSkipped ==
    /\ pc = "set_start"
    /\ pc' = "white_data"
    /\ UNCHANGED <<heap, ns, born, owner>>
    /\ UNCHANGED <<psd, peak, snrp, time, readBad, searched, ifo, ops>>

\* aligned.start_time = conditioned.start_time
SetAlignedStart ==
    /\ pc = "set_start"
    /\ Mutate("aligned",
              SetStartTime(Obj("aligned"), Obj("conditioned").start_time))
    /\ LogOp("set_start_time", {ns["aligned"], ns["conditioned"]}, ns["aligned"])
    /\ pc' = "white_data"
    /\ UNCHANGED <<psd, peak, snrp, time, readBad, searched, ifo>>

\* white_data = (conditioned.to_frequencyseries() / psd**0.5).to_timeseries()
WhitenData ==
    /\ pc = "white_data"
    /\ IF CanDivideByPsd(Obj("conditioned"), psd)
       THEN /\ Bind("white_data", DivideByAsd(Obj("conditioned"), psd))
            /\ LogOp("whiten", {ns["conditioned"], 0}, NewObj)
            /\ pc' = "taper"
       ELSE /\ pc' = "error"
            /\ UNCHANGED <<heap, ns, born, owner, ops>>
    /\ UNCHANGED <<psd, peak, snrp, time, readBad, searched, ifo>>

\* tapered = aligned.highpass_fir(30, 512, remove_corrupted=False)
TaperAligned ==
    /\ pc = "taper"
    /\ Bind("tapered", HighpassFir(Obj("aligned"), FirOrder, FALSE))
    /\ LogOp("highpass_fir", {ns["aligned"]}, NewObj)
    /\ pc' = "white_template"
    /\ UNCHANGED <<psd, peak, snrp, time, readBad, searched, ifo>>

\* white_template = (tapered.to_frequencyseries() / psd**0.5).to_timeseries()
WhitenTemplate ==
    /\ pc = "white_template"
    /\ IF CanDivideByPsd(Obj("tapered"), psd)
       THEN /\ Bind("white_template", DivideByAsd(Obj("tapered"), psd))
            /\ LogOp("whiten", {ns["tapered"], 0}, NewObj)
            /\ pc' = "bandpass_data"
       ELSE /\ pc' = "error"
            /\ UNCHANGED <<heap, ns, born, owner, ops>>
    /\ UNCHANGED <<psd, peak, snrp, time, readBad, searched, ifo>>

\* white_data = white_data.highpass_fir(30., 512).lowpass_fir(300, 512)
BandpassWhiteData ==
    /\ pc = "bandpass_data"
    /\ Bind("white_data",
            LowpassFir(HighpassFir(Obj("white_data"), FirOrder, TRUE),
                       FirOrder, TRUE))
    /\ LogOp("bandpass", {ns["white_data"]}, NewObj)
    /\ pc' = "bandpass_template"
    /\ UNCHANGED <<psd, peak, snrp, time, readBad, searched, ifo>>

\* white_template = white_template.highpass_fir(30, 512).lowpass_fir(300, 512)
BandpassWhiteTemplate ==
    /\ pc = "bandpass_template"
    /\ Bind("white_template",
            LowpassFir(HighpassFir(Obj("white_template"), FirOrder, TRUE),
                       FirOrder, TRUE))
    /\ LogOp("bandpass", {ns["white_template"]}, NewObj)
    /\ pc' = "slice_data"
    /\ UNCHANGED <<psd, peak, snrp, time, readBad, searched, ifo>>

\* white_data = white_data.time_slice(merger.time-.2, merger.time+.1)
SliceWhiteData ==
    /\ pc = "slice_data"
    /\ IF CanTimeSlice(Obj("white_data"), MergerTime - ZoomBefore,
                       MergerTime + ZoomAfter)
       THEN /\ Bind("white_data",
                    TimeSlice(Obj("white_data"), MergerTime - ZoomBefore,
                              MergerTime + ZoomAfter))
            /\ LogOp("time_slice", {ns["white_data"]}, NewObj)
            /\ pc' = "slice_template"
       ELSE /\ pc' = "error"
            /\ UNCHANGED <<heap, ns, born, owner, ops>>
    /\ UNCHANGED <<psd, peak, snrp, time, readBad, searched, ifo>>

\* white_template = white_template.time_slice(merger.time-.2, merger.time+.1)
SliceWhiteTemplate ==
    /\ pc = "slice_template"
    /\ IF CanTimeSlice(Obj("white_template"), MergerTime - ZoomBefore,
                       MergerTime + ZoomAfter)
       THEN /\ Bind("white_template",
                    TimeSlice(Obj("white_template"), MergerTime - ZoomBefore,
                              MergerTime + ZoomAfter))
            /\ LogOp("time_slice", {ns["white_template"]}, NewObj)
            /\ pc' = "subtract"
       ELSE /\ pc' = "error"
            /\ UNCHANGED <<heap, ns, born, owner, ops>>
    /\ UNCHANGED <<psd, peak, snrp, time, readBad, searched, ifo>>

\* The whitened series subtracted: subtracted = white_data - white_template.
SubtractWhitened ==
    /\ pc = "subtract"
    /\ IF CanSubtract(Obj("white_data"), Obj("white_template"))
       THEN /\ Bind("subtracted",
                    Subtract(Obj("white_data"), Obj("white_template")))
            /\ LogOp("subtract", {ns["white_data"], ns["white_template"]}, NewObj)
            /\ pc' = "qtransform_original"
       ELSE /\ pc' = "error"
            /\ UNCHANGED <<heap, ns, born, owner, ops>>
    /\ UNCHANGED <<psd, peak, snrp, time, readBad, searched, ifo>>

\* subtracted = conditioned - aligned
SubtractAligned ==
    /\ pc = "subtract"
    /\ IF CanSubtract(Obj("conditioned"), Obj("aligned"))
       THEN /\ Bind("subtracted", Subtract(Obj("conditioned"), Obj("aligned")))
            /\ LogOp("subtract", {ns["conditioned"], ns["aligned"]}, NewObj)
            /\ pc' = "qtransform_original"
       ELSE /\ pc' = "error"
            /\ UNCHANGED <<heap, ns, born, owner, ops>>
    /\ UNCHANGED <<psd, peak, snrp, time, readBad, searched, ifo>>

\* for data, title in [(conditioned, ...), (subtracted, ...)]:
\*     t, f, p = data.whiten(4, 4).qtransform(...)
\* The whitened series is a temporary of the expression; it is kept here
\* under the name whitened.
QTransformOf(name) ==
    /\ Bind("whitened", Whiten(Obj(name), WhitenSegment, WhitenFilter))
    /\ ops' = ops \o <<[op |-> "whiten", a |-> 0, b |-> 0,
                         inp |-> {ns[name]}, out |-> NewObj],
                        [op |-> "qtransform", a |-> 0, b |-> 0,
                         inp |-> {NewObj}, out |-> -2]>>
    /\ UNCHANGED <<psd, peak, snrp, time, readBad, searched, ifo>>

QTransformOriginal ==
    /\ pc = "qtransform_original"
    /\ QTransformOf("conditioned")
    /\ pc' = "qtransform_subtracted"

QTransformSubtracted ==
    /\ pc = "qtransform_subtracted"
    /\ QTransformOf("subtracted")
    /\ pc' = "done"

\* ------------------------------- statements of the visualisation notebook
\* for ifo in ['H1', 'L1']: data[ifo] = m.strain(ifo)
N2FetchStrain ==
    /\ pc = "n2_fetch"
    /\ \E seed \in 0..1, amp \in 0..MaxAmp :
          Bind(DataName(ifo),
               MergerStrain(seed, amp, (StrainDuration * RawRate) \div 2 + 1))
    /\ LogOp("strain", {}, NewObj)
    /\ IF ifo = "H1" THEN ifo' = "L1" /\ pc' = pc
       ELSE ifo' = "H1" /\ pc' = "n2_whiten"
    /\ UNCHANGED <<psd, peak, snrp, time, readBad, searched>>

\* for ifo in data: whitened[ifo] = data[ifo].whiten(4, 4)
N2Whiten ==
    /\ pc = "n2_whiten"
    /\ Bind(WhitenedName(ifo),
            Whiten(Obj(DataName(ifo)), WhitenSegment, WhitenFilter))
    /\ LogOp("whiten", {ns[DataName(ifo)]}, NewObj)
    /\ IF ifo = "H1" THEN ifo' = "L1" /\ pc' = pc
       ELSE ifo' = "H1" /\ pc' = "n2_bandpass"
    /\ UNCHANGED <<psd, peak, snrp, time, readBad, searched>>

\* for ifo in whitened:
\*     bpsd = whitened[ifo].highpass_fir(30, 512).lowpass_fir(250, 512)
N2Bandpass ==
    /\ pc = "n2_bandpass"
    /\ Bind("bpsd",
            LowpassFir(HighpassFir(Obj(WhitenedName(ifo)), FirOrder, TRUE),
                       FirOrder, TRUE))
    /\ LogOp("bandpass", {ns[WhitenedName(ifo)]}, NewObj)
    /\ pc' = IF ifo = "L1" THEN "n2_roll" ELSE "n2_zoom"
    /\ UNCHANGED <<psd, peak, snrp, time, readBad, searched, ifo>>

\*     if ifo == 'L1': bpsd.roll(int(bpsd.sample_rate * .007))
N2Roll ==
    /\ pc = "n2_roll"
    /\ Mutate("bpsd", Roll(Obj("bpsd"), RollShift))
    /\ LogOp("roll", {ns["bpsd"]}, ns["bpsd"])
    /\ pc' = "n2_negate"
    /\ UNCHANGED <<psd, peak, snrp, time, readBad, searched, ifo>>

\* The sign flipped on the whitened series itself: whitened[ifo] *= -1.
N2NegateWhitened ==
    /\ pc = "n2_negate"
    /\ Mutate(WhitenedName(ifo), Scale(Obj(WhitenedName(ifo)), -1))
    /\ LogOp("negate", {ns[WhitenedName(ifo)]}, ns[WhitenedName(ifo)])
    /\ pc' = "n2_zoom"
    /\ UNCHANGED <<psd, peak, snrp, time, readBad, searched, ifo>>

\*                     bpsd *= -1
N2Negate ==
    /\ pc = "n2_negate"
    /\ Mutate("bpsd", Scale(Obj("bpsd"), -1))
    /\ LogOp("negate", {ns["bpsd"]}, ns["bpsd"])
    /\ pc' = "n2_zoom"
    /\ UNCHANGED <<psd, peak, snrp, time, readBad, searched, ifo>>

\*     zoom = bpsd.time_slice(m.time - 0.2, m.time + .1)
N2Zoom ==
    /\ pc = "n2_zoom"
    /\ IF CanTimeSlice(Obj("bpsd"), MergerTime - ZoomBefore, MergerTime + ZoomAfter)
       THEN /\ Bind("zoom", TimeSlice(Obj("bpsd"), MergerTime - ZoomBefore,
                                      MergerTime + ZoomAfter))
            /\ LogOp("time_slice", {ns["bpsd"]}, NewObj)
            /\ IF ifo = "H1" THEN ifo' = "L1" /\ pc' = "n2_bandpass"
               ELSE ifo' = "H1" /\ pc' = "done"
       ELSE /\ pc' = "error"
            /\ UNCHANGED <<heap, ns, born, owner, ifo, ops>>
    /\ UNCHANGED <<psd, peak, snrp, time, readBad, searched>>

Init ==
    /\ pc \in {"strain", "n2_fetch"}
    /\ ifo = "H1"
    /\ heap = <<>>
    /\ born = <<>>
    /\ owner = <<>>
    /\ ns = [x \in Names |-> 0]
    /\ psd = NoPsd
    /\ peak = -1
    /\ snrp = Sample(0, 0, 0, FALSE)
    /\ time = 0
    /\ readBad = FALSE
    /\ searched = NoSeries
    /\ ops = <<>>

Next ==
    \/ FetchStrain
    \/ ConditionStrain
    \/ CropStrain
    \/ EstimatePsd
    \/ InterpolatePsd
    \/ TruncatePsd
    \/ MakeWaveform
    \/ ResizeWaveform
    \/ ShiftWaveform
    \/ RunMatchedFilter
    \/ CropSnr
    \/ FindPeak
    \/ AlignTemplate
    \/ NormaliseAligned
    \/ ScaleAligned
    \/ SetAlignedStart
    \/ WhitenData
    \/ TaperAligned
    \/ WhitenTemplate
    \/ BandpassWhiteData
    \/ BandpassWhiteTemplate
    \/ SliceWhiteData
    \/ SliceWhiteTemplate
    \/ SubtractAligned
    \/ QTransformOriginal
    \/ QTransformSubtracted
    \/ N2FetchStrain
    \/ N2Whiten
    \/ N2Bandpass
    \/ N2Roll
    \/ N2Negate
    \/ N2Zoom

Spec == Init /\ [][Next]_vars

\* ===================================================== operations on a series
\* SpecOps: every sequence of at most MaxOps operations of the notebooks
\* (crop, highpass_fir, lowpass_fir, time_slice, resample_to_delta_t,
\* cyclic_time_shift, subtraction), with every argument, applied to a series
\* ts.  An operation whose result would be empty, or whose arguments the
\* library rejects, raises: the run ends in "ops_error" with nothing bound.
OpsLen == 10
MaxOps == 3
MaxOrder == 2
MaxCropSec == 2

\* The input: OpsLen samples at the raw or at the resampled interval.
OpsInput(seed, delta_t) ==
    TimeSeries([i \in 1..OpsLen |->
                   Sample(Noise(i, seed), 0, StrainStart + (i - 1) * delta_t, FALSE)],
               delta_t, StrainStart)

InitOps ==
    /\ pc = "ops"
    /\ \E seed \in 0..1, delta_t \in {1, Decim} :
          /\ heap = <<OpsInput(seed, delta_t)>>
          /\ born = heap
    /\ owner = <<"ts">>
    /\ ns = [x \in Names |-> IF x = "ts" THEN 1 ELSE 0]
    /\ ifo = "H1"
    /\ psd = NoPsd
    /\ peak = -1
    /\ snrp = Sample(0, 0, 0, FALSE)
    /\ time = 0
    /\ readBad = FALSE
    /\ searched = NoSeries
    /\ ops = <<>>

\* ts = <op>(ts, a, b): when the library accepts the call the result is a new
\* series, else the call raises.
Apply(op, a, b, accepted, value) ==
    /\ pc = "ops"
    /\ Len(ops) < MaxOps
    /\ IF accepted
       THEN /\ Bind("ts", value)
            /\ ops' = Append(ops, [op |-> op, a |-> a, b |-> b,
                                   inp |-> ns["ts"], out |-> Len(heap) + 1])
            /\ pc' = pc
       ELSE /\ pc' = "ops_error"
            /\ UNCHANGED <<heap, ns, born, owner, ops>>
    /\ UNCHANGED <<psd, peak, snrp, time, readBad, searched, ifo>>

\* ts.crop(a, b) that leaves the epoch where it was.
OpCropKeepsEpoch ==
    /\ pc = "ops"
    /\ \E a, b \in 0..MaxCropSec :
           LET ts == Obj("ts")
           IN  Apply("crop", a, b,
                     /\ (a + b) * TicksPerSec <= Duration(ts)
                     /\ CropStartSamples(ts, a) < CropEndIndex(ts, b),
                     SetStartTime(Crop(ts, a, b), ts.start_time))

\* ts = ts.crop(a, b): "left + right" longer than the series raises, and so
\* does an empty result.
OpCrop ==
    /\ pc = "ops"
    /\ \E a, b \in 0..MaxCropSec :
           LET ts == Obj("ts")
           IN  Apply("crop", a, b,
                     /\ (a + b) * TicksPerSec <= Duration(ts)
                     /\ CropStartSamples(ts, a) < CropEndIndex(ts, b),
                     Crop(ts, a, b))

\* ts.highpass_fir(f, order, remove_corrupted=False) in place of the default.
OpHighpassFirZeroed ==
    /\ pc = "ops"
    /\ \E order \in 1..MaxOrder :
           LET ts == Obj("ts")
           IN  Apply("highpass_fir", order, 0, Len(ts.data) > 2 * order,
                     HighpassFir(ts, order, FALSE))

\* ts = ts.highpass_fir(f, order)
OpHighpassFir ==
    /\ pc = "ops"
    /\ \E order \in 1..MaxOrder :
           LET ts == Obj("ts")
           IN  Apply("highpass_fir", order, 0, Len(ts.data) > 2 * order,
                     HighpassFir(ts, order, TRUE))

\* ts = ts.lowpass_fir(f, order)
OpLowpassFir ==
    /\ pc = "ops"
    /\ \E order \in 1..MaxOrder :
           LET ts == Obj("ts")
           IN  Apply("lowpass_fir", order, 0, Len(ts.data) > 2 * order,
                     LowpassFir(ts, order, TRUE))

\* ts.time_slice(start, end) that lets an empty slice through.
OpTimeSliceEmpty ==
    /\ pc = "ops"
    /\ \E a, b \in -1..1 :
           LET ts    == Obj("ts")
               start == ts.start_time + a
               end   == EndTime(ts) + b
           IN  Apply("time_slice", a, b, CanTimeSlice(ts, start, end),
                     TimeSlice(ts, start, end))

\* ts.time_slice(start, end) that cuts a window reaching outside the series
\* down to the series instead of raising.
OpTimeSliceClamped ==
    /\ pc = "ops"
    /\ \E a, b \in -1..1 :
           LET ts    == Obj("ts")
               start == Max(ts.start_time + a, ts.start_time)
               end   == Min(EndTime(ts) + b, EndTime(ts))
           IN  Apply("time_slice", a, b,
                     (start - ts.start_time) \div ts.delta_t
                         < (end - ts.start_time) \div ts.delta_t,
                     TimeSlice(ts, start, end))
\* ts = ts.time_slice(start, end), start and end within a tick or a sample
\* of the ends of the series.
OpTimeSlice ==
    /\ pc = "ops"
    /\ \E a, b \in -1..1 :
           LET ts    == Obj("ts")
               start == ts.start_time + a
               end   == EndTime(ts) + b
           IN  Apply("time_slice", a, b,
                     /\ CanTimeSlice(ts, start, end)
                     /\ (start - ts.start_time) \div ts.delta_t
                           < (end - ts.start_time) \div ts.delta_t,
                     TimeSlice(ts, start, end))

\* ts = resample_to_delta_t(ts, 2 * ts.delta_t), down to one sample a second
\* (the sample rates of the notebooks are whole numbers).
OpResample ==
    /\ pc = "ops"
    /\ 2 * Obj("ts").delta_t <= TicksPerSec
    /\ LET ts == Obj("ts")
       IN  Apply("resample", 2, 0, Len(ts.data) >= 2,
                 ResampleToDeltaT(ts, 2 * ts.delta_t))

\* ts = ts.cyclic_time_shift(k * ts.delta_t)
OpCyclicTimeShift ==
    /\ pc = "ops"
    /\ \E k \in {-1, 1} :
           LET ts == Obj("ts")
           IN  Apply("cyclic_time_shift", k, 0, TRUE,
                     CyclicTimeShift(ts, k * ts.delta_t))

\* ts = ts - <the series ts was derived from>
OpSubtract ==
    /\ ops # <<>>
    /\ LET ts   == Obj("ts")
           prev == heap[ops[Len(ops)].inp]
       IN  Apply("subtract", 0, 0, CanSubtract(ts, prev), Subtract(ts, prev))

NextOps ==
    \/ OpCrop
    \/ OpHighpassFir
    \/ OpLowpassFir
    \/ OpTimeSlice
    \/ OpResample
    \/ OpCyclicTimeShift
    \/ OpSubtract

SpecOps == InitOps /\ [][NextOps]_vars

\* ======================================================= matched filter engine
\* SpecMF: the matched filter as the transform pair it is, exact on a ring
\* of RingLen samples: the inverse transform of
\* data_freq * conj(template_freq) / PSD over the frequencies from the
\* cutoff up to Nyquist, in units of 1/sigma.  The run filters, crops,
\* searches the peak, shifts the data around the ring and does it again.
RingLen == 8
RECURSIVE CSum(_)
CSum(s) == IF s = <<>> THEN CZero ELSE CAdd(Head(s), CSum(Tail(s)))
\* exp(2 pi i m / n) for n dividing 8.
RingRoot(m, n) == Root(m * (8 \div n))
\* The forward transform of a real series, bin k.
Dft(ts, k) ==
    LET n == Len(ts.data)
    IN  CSum([i \in 1..n |-> CScale(ts.data[i].re, RingRoot(-(i - 1) * k, n))])
\* 1/PSD per bin, in units of 1/2 (the PSD is 1 or 2 in every bin).
InvPsd(p, k) == 2 \div p.data[k + 1]
\* The bins from the low-frequency cutoff (above DC) up to Nyquist.
FilterBins(n) == 1..(n \div 2 - 1)
\* The template's PSD-weighted overlap with itself, sigma^2 = a + b*sqrt(2)
\* as the pair <<a, b>>.
SigmaSq(template, p) ==
    LET n == Len(template.data)
        m == [k \in FilterBins(n) |-> CAbsSq(Dft(template, k))]
    IN  <<SeqSum([k \in FilterBins(n) |-> InvPsd(p, k) * m[k][1]]),
          SeqSum([k \in FilterBins(n) |-> InvPsd(p, k) * m[k][2]])>>
\* The same without the conjugate of the template's transform (a
\* convolution in place of the correlation).
MatchedFilterNoConj(template, data, p) ==
    LET n == Len(data.data)
        H == [k \in FilterBins(n) |-> Dft(template, k)]
        S == [k \in FilterBins(n) |-> Dft(data, k)]
        q(j) == CSum([k \in FilterBins(n) |->
                    CScale(InvPsd(p, k), CMul(CMul(H[k], S[k]), RingRoot(j * k, n)))])
    IN  TimeSeries([j \in 1..n |-> CSample(q(j - 1), data.data[j].src, FALSE)],
                   data.delta_t, data.start_time)
\* matched_filter(template, data, psd, low_frequency_cutoff): sample j is
\* sum_k conj(H[k]) S[k] / PSD[k] exp(2 pi i j k / n); the series has the
\* data's epoch and sample interval.
MatchedFilterExact(template, data, p) ==
    LET n == Len(data.data)
        H == [k \in FilterBins(n) |-> CConj(Dft(template, k))]
        S == [k \in FilterBins(n) |-> Dft(data, k)]
        q(j) == CSum([k \in FilterBins(n) |->
                    CScale(InvPsd(p, k), CMul(CMul(H[k], S[k]), RingRoot(j * k, n)))])
    IN  TimeSeries([j \in 1..n |-> CSample(q(j - 1), data.data[j].src, FALSE)],
                   data.delta_t, data.start_time)
\* Any two sample intervals pass.
AnySampleRate(template, data) == TRUE
\* "if template and data dt differ, fails with a SampleRateMismatchError"
SameSampleRate(template, data) == template.delta_t = data.delta_t

\* The crop of the SNR in seconds, a quarter of the ring at the start and an
\* eighth at the end at one sample a second (snr.crop(4 + 4, 4) is 2 to 1).
MFCropStart == RingLen \div 4
MFCropEnd == RingLen \div 8
\* The sample interval of the data, and the shifts tried.
MFDeltaT == Decim
MaxShift == 2

\* The template: the merger sample in the first bin, one sample before it
\* at the end of the ring.
MFTemplate(a0, a7, delta_t) ==
    TimeSeries([i \in 1..RingLen |->
                   Sample(IF i = 1 THEN a0 ELSE IF i = RingLen THEN a7 ELSE 0, 0,
                          Lag(i - 1, RingLen) * delta_t, FALSE)],
               delta_t, 0)
\* The data: the template at offset t, and g times the template at offset u.
MFData(tpl, t, g, u) ==
    TimeSeries([i \in 1..RingLen |->
                   Sample(tpl.data[Mod(i - 1 - t, RingLen) + 1].re
                              + g * tpl.data[Mod(i - 1 - u, RingLen) + 1].re, 0,
                          StrainStart + (i - 1) * MFDeltaT, FALSE)],
               MFDeltaT, StrainStart)
\* A PSD of the ring's bins: flat and equal to one, or twice that from the
\* second bin on.
MFPsd(tilt) ==
    [NoPsd EXCEPT !.data = [b \in 1..(RingLen \div 2 + 1) |->
                               IF tilt /\ b > 2 THEN 2 ELSE 1],
                  !.inv_df = RingLen * MFDeltaT, !.delta_t = MFDeltaT]

InitMF ==
    /\ pc = "mf_filter"
    /\ \E a0 \in 1..2, a7 \in -1..1, t \in {0, 3, 4}, g \in 0..MaxAmp,
          u \in 0..(RingLen - 1), tdt \in {MFDeltaT, 1} :
          /\ g = 0 => u = 0
          /\ g > 0 => u # t /\ t # 0
          /\ heap = <<MFTemplate(a0, a7, tdt),
                      MFData(MFTemplate(a0, a7, tdt), t, g, u)>>
    /\ born = heap
    /\ owner = <<"template", "conditioned">>
    /\ ns = [x \in Names |-> IF x = "template" THEN 1
                             ELSE IF x = "conditioned" THEN 2 ELSE 0]
    /\ \E tilt \in BOOLEAN : psd = MFPsd(tilt)
    /\ ifo = "H1"
    /\ peak = -1
    /\ snrp = Sample(0, 0, 0, FALSE)
    /\ time = 0
    /\ readBad = FALSE
    /\ searched = NoSeries
    /\ ops = <<>>

\* snr = matched_filter(template, conditioned, psd=psd, low_frequency_cutoff=20)
MFRun ==
    /\ pc = "mf_filter"
    /\ IF SameSampleRate(Obj("template"), Obj("conditioned"))
       THEN /\ Bind("snr", MatchedFilterExact(Obj("template"), Obj("conditioned"), psd))
            /\ pc' = "mf_crop"
       ELSE /\ pc' = "SampleRateMismatchError"
            /\ UNCHANGED <<heap, ns, born, owner>>
    /\ UNCHANGED <<psd, peak, snrp, time, readBad, searched, ifo, ops>>

\* snr = snr.crop(4 + 4, 4)
MFCrop ==
    /\ pc = "mf_crop"
    /\ ops' = Append(ops, [op |-> "crop", a |-> MFCropStart, b |-> MFCropEnd,
                           inp |-> ns["snr"], out |-> Len(heap) + 1])
    /\ Bind("snr", Crop(Obj("snr"), MFCropStart, MFCropEnd))
    /\ pc' = "mf_peak"
    /\ UNCHANGED <<psd, peak, snrp, time, readBad, searched, ifo>>

\* The peak search that reports the index as the time.
MFPeakIndexAsTime ==
    /\ pc = "mf_peak"
    /\ LET p == Argmax(Obj("snr"))
       IN  /\ peak' = p
           /\ snrp' = Obj("snr").data[p + 1]
           /\ time' = p
           /\ ops' = Append(ops, [op |-> "peak", a |-> p, b |-> p,
                                  inp |-> ns["conditioned"], out |-> ns["snr"]])
    /\ searched' = Obj("snr")
    /\ pc' = IF Len(ops) = 1 THEN "mf_shift" ELSE "mf_done"
    /\ UNCHANGED <<heap, ns, born, owner, psd, readBad, ifo>>

\* peak = abs(snr).numpy().argmax(); snrp = snr[peak]
\* time = snr.sample_times[peak]
MFPeak ==
    /\ pc = "mf_peak"
    /\ LET p == Argmax(Obj("snr"))
       IN  /\ peak' = p
           /\ snrp' = Obj("snr").data[p + 1]
           /\ time' = SampleTimes(Obj("snr"))[p + 1]
           /\ ops' = Append(ops, [op |-> "peak", a |-> p,
                                  b |-> SampleTimes(Obj("snr"))[p + 1],
                                  inp |-> ns["conditioned"], out |-> ns["snr"]])
    /\ searched' = Obj("snr")
    /\ pc' = IF Len(ops) = 1 THEN "mf_shift" ELSE "mf_done"
    /\ UNCHANGED <<heap, ns, born, owner, psd, readBad, ifo>>

\* The data shifted around the ring by k samples, for the second run.
MFShiftData ==
    /\ pc = "mf_shift"
    /\ \E k \in (-MaxShift..MaxShift) \ {0} :
          /\ ops' = Append(ops, [op |-> "shift", a |-> k, b |-> 0,
                                 inp |-> ns["conditioned"], out |-> Len(heap) + 1])
          /\ Bind("conditioned",
                  CyclicTimeShift(Obj("conditioned"), k * Obj("conditioned").delta_t))
    /\ pc' = "mf_filter"
    /\ UNCHANGED <<psd, peak, snrp, time, readBad, searched, ifo>>

NextMF ==
    \/ MFRun
    \/ MFCrop
    \/ MFPeak
    \/ MFShiftData

SpecMF == InitMF /\ [][NextMF]_vars

\* ------------------------------------------------------------ SpecFir
\* The FIR filters in their two modes, on the inputs of SpecOps:
\* ts = ts.highpass_fir(f, order, remove_corrupted=...) and
\* ts = ts.lowpass_fir(f, order, remove_corrupted=...), up to MaxFirOps in
\* a row.  The log keeps the half-length in a and the mode in b (1 when the
\* corrupted region is removed).
MaxFirOps == 2

FirHighpass ==
    /\ pc = "ops"
    /\ Len(ops) < MaxFirOps
    /\ \E order \in 1..MaxOrder, remove_corrupted \in BOOLEAN :
           LET ts == Obj("ts")
           IN  Apply("highpass_fir", order, IF remove_corrupted THEN 1 ELSE 0,
                     remove_corrupted => Len(ts.data) > 2 * order,
                     HighpassFir(ts, order, remove_corrupted))

FirLowpass ==
    /\ pc = "ops"
    /\ Len(ops) < MaxFirOps
    /\ \E order \in 1..MaxOrder, remove_corrupted \in BOOLEAN :
           LET ts == Obj("ts")
           IN  Apply("lowpass_fir", order, IF remove_corrupted THEN 1 ELSE 0,
                     remove_corrupted => Len(ts.data) > 2 * order,
                     LowpassFir(ts, order, remove_corrupted))

NextFir ==
    \/ FirHighpass
    \/ FirLowpass

SpecFir == InitOps /\ [][NextFir]_vars

\* ------------------------------------------------------------ SpecSlice
\* The cells that zoom in on the merger: a series, resampled or not,
\* filtered or not, is cut with time_slice, up to MaxSliceOps calls in a
\* row on the inputs of SpecOps (data[ifo].highpass_fir(15, 512) and then
\* high_data.time_slice(m.time - 0.5, m.time + 0.5)).
MaxSliceOps == 2

SliceHighpassFir ==
    /\ Len(ops) < MaxSliceOps
    /\ OpHighpassFir

SliceLowpassFir ==
    /\ Len(ops) < MaxSliceOps
    /\ OpLowpassFir

SliceResample ==
    /\ Len(ops) < MaxSliceOps
    /\ OpResample

SliceTimeSlice ==
    /\ Len(ops) < MaxSliceOps
    /\ OpTimeSlice

NextSlice ==
    \/ SliceHighpassFir
    \/ SliceLowpassFir
    \/ SliceResample
    \/ SliceTimeSlice

SpecSlice == InitOps /\ [][NextSlice]_vars

\* ============================================================ template bank
\* SpecPar: "in a search we would grid over the parameters and calculate the
\* SNR time series for each one".  Every template of the bank is searched by
\* a worker of its own against the one conditioned series and the one PSD;
\* a worker runs the notebook's statements from get_td_waveform to the peak
\* search, one statement a step, and the steps of the workers interleave in
\* any order.  No step takes a lock.  pc, peak, snrp and time hold one entry
\* for each worker; ops holds the PSD as it was produced.
ParWorkers == {1, 2}
\* The names a worker binds: its own.
HpName(w) == IF w = 1 THEN "hp_1" ELSE "hp_2"
TemplateName(w) == IF w = 1 THEN "template_1" ELSE "template_2"
\* Every worker binding its SNR series to the one name snr.
SnrNameShared(w) == IF w \in ParWorkers THEN "snr" ELSE "none"
SnrName(w) == IF w = 1 THEN "snr_1" ELSE "snr_2"
ParNames == {"conditioned", "snr", "none"}
                \cup {HpName(w) : w \in ParWorkers}
                \cup {TemplateName(w) : w \in ParWorkers}
                \cup {SnrName(w) : w \in ParWorkers}
\* The conditioned strain and its PSD, as the notebook produces them.
ParData(seed, inj) ==
    Crop(ResampleToDeltaT(Highpass(MergerStrain(seed, MaxAmp, inj)), Decim),
         CondCropStart, CondCropEnd)
ParPsd(data) ==
    InverseSpectrumTruncation(
        Interpolate(Psd(data, PsdSegment), Duration(data)),
        PsdFilterSec * SampleRateOf(data), Hz(15))
\* The waveform length of worker w's template; no two workers share one.
ParLength(w, data) == TemplateSec * SampleRateOf(data) + 1 - w

InitPar ==
    /\ pc = [w \in ParWorkers |-> "waveform"]
    /\ \E seed \in {0}, inj \in {(StrainDuration * RawRate) \div 2 + 1} :
          /\ heap = <<ParData(seed, inj)>>
          /\ psd = ParPsd(ParData(seed, inj))
    /\ born = heap
    /\ owner = <<"conditioned">>
    /\ ns = [x \in ParNames |-> IF x = "conditioned" THEN 1 ELSE 0]
    /\ peak = [w \in ParWorkers |-> -1]
    /\ snrp = [w \in ParWorkers |-> Sample(0, 0, 0, FALSE)]
    /\ time = [w \in ParWorkers |-> 0]
    /\ ifo = "H1"
    /\ readBad = FALSE
    /\ searched = NoSeries
    /\ ops = <<[op |-> "psd", a |-> PsdSegment, b |-> PsdFilterSec,
                inp |-> 1, out |-> psd]>>

\* hp, hc = get_td_waveform(..., delta_t=conditioned.delta_t, f_lower=20)
ParWaveform(w) ==
    /\ pc[w] = "waveform"
    /\ \E post \in {Min(MaxPostMerger, ParLength(w, Obj("conditioned")) - 1)} :
          Bind(HpName(w), GetTdWaveform(ParLength(w, Obj("conditioned")), post,
                                        Obj("conditioned").delta_t))
    /\ pc' = [pc EXCEPT ![w] = "resize"]
    /\ UNCHANGED <<psd, peak, snrp, time, readBad, searched, ifo, ops>>

\* hp.resize(len(conditioned))
ParResize(w) ==
    /\ pc[w] = "resize"
    /\ Mutate(HpName(w), Resize(Obj(HpName(w)), Len(Obj("conditioned").data)))
    /\ pc' = [pc EXCEPT ![w] = "shift"]
    /\ UNCHANGED <<psd, peak, snrp, time, readBad, searched, ifo, ops>>

\* template = hp.cyclic_time_shift(hp.start_time)
ParShift(w) ==
    /\ pc[w] = "shift"
    /\ Bind(TemplateName(w),
            CyclicTimeShift(Obj(HpName(w)), Obj(HpName(w)).start_time))
    /\ pc' = [pc EXCEPT ![w] = "matched_filter"]
    /\ UNCHANGED <<psd, peak, snrp, time, readBad, searched, ifo, ops>>

\* snr = matched_filter(template, conditioned, psd=psd, low_frequency_cutoff=20)
ParMatchedFilter(w) ==
    /\ pc[w] = "matched_filter"
    /\ Bind(SnrName(w),
            MatchedFilter(Obj(TemplateName(w)), Obj("conditioned"), psd))
    /\ pc' = [pc EXCEPT ![w] = "snr_crop"]
    /\ UNCHANGED <<psd, peak, snrp, time, readBad, searched, ifo, ops>>

\* snr = snr.crop(4 + 4, 4)
ParCropSnr(w) ==
    /\ pc[w] = "snr_crop"
    /\ Bind(SnrName(w), Crop(Obj(SnrName(w)), SnrCropStart, SnrCropEnd))
    /\ pc' = [pc EXCEPT ![w] = "peak"]
    /\ UNCHANGED <<psd, peak, snrp, time, readBad, searched, ifo, ops>>

\* peak = abs(snr).numpy().argmax(); snrp = snr[peak]
\* time = snr.sample_times[peak]
ParFindPeak(w) ==
    /\ pc[w] = "peak"
    /\ LET p == Argmax(Obj(SnrName(w)))
       IN  /\ peak' = [peak EXCEPT ![w] = p]
           /\ snrp' = [snrp EXCEPT ![w] = Obj(SnrName(w)).data[p + 1]]
           /\ time' = [time EXCEPT ![w] = SampleTimes(Obj(SnrName(w)))[p + 1]]
    /\ pc' = [pc EXCEPT ![w] = "done"]
    /\ UNCHANGED <<heap, ns, born, owner, psd, readBad, searched, ifo, ops>>

NextPar ==
    \/ \E w \in ParWorkers : ParWaveform(w)
    \/ \E w \in ParWorkers : ParResize(w)
    \/ \E w \in ParWorkers : ParShift(w)
    \/ \E w \in ParWorkers : ParMatchedFilter(w)
    \/ \E w \in ParWorkers : ParCropSnr(w)
    \/ \E w \in ParWorkers : ParFindPeak(w)

SpecPar == InitPar /\ [][NextPar]_vars

\* ============================================================ stage contracts
\* SpecStages: the chain psd, interpolate, inverse_spectrum_truncation,
\* matched_filter on a short series, with every argument, those a stage
\* rejects included.  A rejected call raises: the run ends in the state named
\* after the error.  ops records every call of psd and of
\* inverse_spectrum_truncation with its arguments (out: 1 returned, 0
\* raised).
MaxStageLen == 6
MaxSegSec == 2

StageErrors == {"InsufficientDataError", "SampleRateMismatchError",
                "ConfigurationError", "FrequencyRangeError"}

\* The data: len samples; the template: a waveform resized to the data's
\* length, its merger moved to the first bin.
StageData(len, seed, delta_t) ==
    TimeSeries([i \in 1..len |->
                   Sample(Noise(i, seed), 0, StrainStart + (i - 1) * delta_t, FALSE)],
               delta_t, StrainStart)
StageTemplate(len, delta_t) ==
    LET hp == Resize(GetTdWaveform(Min(2, len), 0, delta_t), len)
    IN  CyclicTimeShift(hp, hp.start_time)

InitStages ==
    /\ pc = "st_psd"
    /\ \E len \in 1..MaxStageLen, seed \in 0..1, delta_t \in {1, Decim},
          tdt \in {1, Decim} :
          heap = <<StageTemplate(len, tdt), StageData(len, seed, delta_t)>>
    /\ born = heap
    /\ owner = <<"template", "conditioned">>
    /\ ns = [x \in Names |-> IF x = "template" THEN 1
                             ELSE IF x = "conditioned" THEN 2 ELSE 0]
    /\ psd = NoPsd
    /\ ifo = "H1"
    /\ peak = -1
    /\ snrp = Sample(0, 0, 0, FALSE)
    /\ time = 0
    /\ readBad = FALSE
    /\ searched = NoSeries
    /\ ops = <<>>

\* psd = conditioned.psd(seg)
StagePsd ==
    /\ pc = "st_psd"
    /\ \E seg \in 1..MaxSegSec :
          LET ok == CanPsd(Obj("conditioned"), seg)
          IN  /\ ops' = Append(ops, [op |-> "psd", a |-> seg, b |-> 0,
                                     inp |-> ns["conditioned"],
                                     out |-> IF ok THEN 1 ELSE 0])
              /\ IF ok
                 THEN /\ psd' = Psd(Obj("conditioned"), seg)
                      /\ pc' = "st_interpolate"
                 ELSE /\ pc' = "InsufficientDataError"
                      /\ UNCHANGED psd
    /\ UNCHANGED <<heap, ns, born, owner, peak, snrp, time, readBad, searched, ifo>>

\* psd = interpolate(psd, conditioned.delta_f)
StageInterpolate ==
    /\ pc = "st_interpolate"
    /\ psd' = Interpolate(psd, Duration(Obj("conditioned")))
    /\ pc' = "st_truncate"
    /\ UNCHANGED <<heap, ns, born, owner, peak, snrp, time, readBad, searched, ifo, ops>>

\* The errors inverse_spectrum_truncation(p, n, flow) raises; which of two
\* comes first is not fixed.
TruncateErrors(p, n, flow) ==
    (IF CanTruncate(p, n) THEN {} ELSE {"ConfigurationError"})
        \cup (IF CutoffInRange(flow, p.delta_t) THEN {} ELSE {"FrequencyRangeError"})

\* The truncation that fails after it has written its result.
StageTruncatePartial ==
    /\ pc = "st_truncate"
    /\ \E n \in 1..(MaxSegSec * TicksPerSec + 1), flow \in 0..TicksPerSec :
          /\ ops' = Append(ops, [op |-> "truncate", a |-> n, b |-> flow,
                                 inp |-> ns["conditioned"],
                                 out |-> IF TruncateErrors(psd, n, flow) = {}
                                         THEN 1 ELSE 0])
          /\ psd' = InverseSpectrumTruncation(psd, n, flow)
          /\ IF TruncateErrors(psd, n, flow) = {}
             THEN pc' = "st_filter"
             ELSE pc' \in TruncateErrors(psd, n, flow)
    /\ UNCHANGED <<heap, ns, born, owner, peak, snrp, time, readBad, searched, ifo>>

\* psd = inverse_spectrum_truncation(psd, n, low_frequency_cutoff=flow)
StageTruncate ==
    /\ pc = "st_truncate"
    /\ \E n \in 1..(MaxSegSec * TicksPerSec + 1), flow \in 0..TicksPerSec :
          /\ ops' = Append(ops, [op |-> "truncate", a |-> n, b |-> flow,
                                 inp |-> ns["conditioned"],
                                 out |-> IF TruncateErrors(psd, n, flow) = {}
                                         THEN 1 ELSE 0])
          /\ IF TruncateErrors(psd, n, flow) = {}
             THEN /\ psd' = InverseSpectrumTruncation(psd, n, flow)
                  /\ pc' = "st_filter"
             ELSE /\ pc' \in TruncateErrors(psd, n, flow)
                  /\ UNCHANGED psd
    /\ UNCHANGED <<heap, ns, born, owner, peak, snrp, time, readBad, searched, ifo>>

\* snr = matched_filter(template, conditioned, psd=psd, ...)
StageMatchedFilter ==
    /\ pc = "st_filter"
    /\ IF SameSampleRate(Obj("template"), Obj("conditioned"))
       THEN /\ Bind("snr", MatchedFilter(Obj("template"), Obj("conditioned"), psd))
            /\ pc' = "st_done"
       ELSE /\ pc' = "SampleRateMismatchError"
            /\ UNCHANGED <<heap, ns, born, owner>>
    /\ UNCHANGED <<psd, peak, snrp, time, readBad, searched, ifo, ops>>

NextStages ==
    \/ StagePsd
    \/ StageInterpolate
    \/ StageTruncate
    \/ StageMatchedFilter

SpecStages == InitStages /\ [][NextStages]_vars

\* ============================================================ transform pair
\* SpecRT: ts.to_frequencyseries().to_timeseries() on every short series.
\* The transforms are computed exactly in the field of the numbers a + b i
\* modulo FieldP (a prime that leaves 3 modulo 4): it has a root of unity of
\* every order up to 8, conjugation inverts the roots of unity as it does
\* for complex numbers, and a whole-number sample is the residue it leaves.
FieldP == 839
UnityOrder == FieldP + 1
\* A number of order UnityOrder; its 210th power is i.
FUnit == <<10, 64>>
FAdd(x, y) == <<(x[1] + y[1]) % FieldP, (x[2] + y[2]) % FieldP>>
FMul(x, y) == <<Mod(x[1] * y[1] - x[2] * y[2], FieldP),
                (x[1] * y[2] + x[2] * y[1]) % FieldP>>
FConj(x) == <<x[1], Mod(-x[2], FieldP)>>
RECURSIVE FPow(_, _)
FPow(x, e) ==
    IF e = 0 THEN <<1, 0>>
    ELSE IF e % 2 = 1 THEN FMul(x, FPow(x, e - 1))
    ELSE FPow(FMul(x, x), e \div 2)
RECURSIVE FSum(_)
FSum(s) == IF s = <<>> THEN <<0, 0>> ELSE FAdd(Head(s), FSum(Tail(s)))
\* exp(2 pi i m / n)
Unity(m, n) == FPow(FUnit, (UnityOrder \div n) * Mod(m, n))
\* 1 / n
FInv(n) == CHOOSE m \in 1..(FieldP - 1) : (m * n) % FieldP = 1
\* The whole number of least magnitude with residue v.
Signed(v) == IF 2 * v > FieldP THEN v - FieldP ELSE v

\* ts.to_frequencyseries(): the forward real-to-complex transform.  The
\* bins 0..n/2 are kept (the others are their conjugates); delta_f is
\* 1 / duration.
ToFrequencySeries(ts) ==
    LET n == Len(ts.data)
        bin(k) == FSum([j \in 1..n |->
                      FMul(<<Mod(ts.data[j].re, FieldP), 0>>,
                           Unity(-(j - 1) * k, n))])
    IN  [data |-> [b \in 1..(n \div 2 + 1) |-> bin(b - 1)],
         inv_df |-> n * ts.delta_t,
         epoch |-> ts.start_time,
         bad |-> HasBad(ts)]

\* fs.to_timeseries() needs at least two bins.
CanToTimeSeries(fs) == Len(fs.data) >= 2
\* The inverse that takes the upper half of the spectrum as it finds the
\* lower, unconjugated.
ToTimeSeriesNoConj(fs) ==
    LET flen == Len(fs.data)
        tlen == 2 * (flen - 1)
        dt   == fs.inv_df \div tlen
        full(k) == IF k = 0 \/ 2 * k = tlen THEN <<fs.data[k + 1][1], 0>>
                   ELSE IF 2 * k < tlen THEN fs.data[k + 1]
                   ELSE fs.data[tlen - k + 1]
        val(j) == FMul(<<FInv(tlen), 0>>,
                       FSum([k \in 1..tlen |->
                           FMul(full(k - 1), Unity(j * (k - 1), tlen))]))[1]
    IN  TimeSeries([j \in 1..tlen |->
                       Sample(Signed(val(j - 1)), 0, fs.epoch + (j - 1) * dt, fs.bad)],
                   dt, fs.epoch)
\* fs.to_timeseries(): the inverse complex-to-real transform.  The call
\* passes no length: the series has 2 * (bins - 1) samples, and its sample
\* interval is 1 / (delta_f * samples).
ToTimeSeries(fs) ==
    LET flen == Len(fs.data)
        tlen == 2 * (flen - 1)
        dt   == fs.inv_df \div tlen
        \* the whole spectrum: bin 0 and the Nyquist bin are real, the upper
        \* half is the conjugate of the lower
        full(k) == IF k = 0 \/ 2 * k = tlen THEN <<fs.data[k + 1][1], 0>>
                   ELSE IF 2 * k < tlen THEN fs.data[k + 1]
                   ELSE FConj(fs.data[tlen - k + 1])
        val(j) == FMul(<<FInv(tlen), 0>>,
                       FSum([k \in 1..tlen |->
                           FMul(full(k - 1), Unity(j * (k - 1), tlen))]))[1]
    IN  TimeSeries([j \in 1..tlen |->
                       Sample(Signed(val(j - 1)), 0, fs.epoch + (j - 1) * dt, fs.bad)],
                   dt, fs.epoch)

MaxRtLen == 5
\* Sample intervals that 2, 4 and 6 divide, so that the interval of a
\* series that comes back one sample short is a whole number of ticks.
RtDeltaTs == {12, 24}
RtInput(x, delta_t) ==
    TimeSeries([i \in 1..Len(x) |->
                   Sample(x[i], 0, StrainStart + (i - 1) * delta_t, FALSE)],
               delta_t, StrainStart)

InitRT ==
    /\ pc = "rt_forward"
    /\ \E len \in 1..MaxRtLen, delta_t \in RtDeltaTs :
       \E x \in [1..len -> -1..1] :
          heap = <<RtInput(x, delta_t)>>
    /\ born = heap
    /\ owner = <<"ts">>
    /\ ns = [x \in Names |-> IF x = "ts" THEN 1 ELSE 0]
    /\ psd = NoPsd
    /\ ifo = "H1"
    /\ peak = -1
    /\ snrp = Sample(0, 0, 0, FALSE)
    /\ time = 0
    /\ readBad = FALSE
    /\ searched = NoSeries
    /\ ops = <<>>

\* fs = ts.to_frequencyseries()
RtForward ==
    /\ pc = "rt_forward"
    /\ Bind("fs", ToFrequencySeries(Obj("ts")))
    /\ pc' = "rt_inverse"
    /\ UNCHANGED <<psd, peak, snrp, time, readBad, searched, ifo, ops>>

\* ts = fs.to_timeseries()
RtInverse ==
    /\ pc = "rt_inverse"
    /\ IF CanToTimeSeries(Obj("fs"))
       THEN /\ Bind("ts", ToTimeSeries(Obj("fs")))
            /\ pc' = "rt_done"
       ELSE /\ pc' = "rt_error"
            /\ UNCHANGED <<heap, ns, born, owner>>
    /\ UNCHANGED <<psd, peak, snrp, time, readBad, searched, ifo, ops>>

NextRT ==
    \/ RtForward
    \/ RtInverse

SpecRT == InitRT /\ [][NextRT]_vars

\* ================================================================== claims
\* The objects first bound to a name, by object id.
ObjectsOf(name) == {o \in 1..Len(heap) : owner[o] = name}
\* How many samples the searched series lost against conditioned, the data
\* the matched filter ran on, at its start and at its end.
StartCropped ==
    (searched.start_time - Obj("conditioned").start_time) \div searched.delta_t
EndCropped ==
    Len(Obj("conditioned").data) - Len(searched.data) - StartCropped
\* The waveform as get_td_waveform returned it, before it was resized.
TemplateLength == Len(born[ns["hp"]].data)

C3_CropIsMax ==
    searched # NoSeries =>
        /\ StartCropped = Max(TemplateLength, psd.filt_len)
        /\ EndCropped = Max(TemplateLength, psd.filt_len)
\* C3 (corrected): before the peak search the matched-filter output is
\* cropped by the template allowance plus the inverse-PSD filter length at
\* its beginning and by the filter length at its end, both at least
\* max(template_length, filter_length); the peak search reads only the
\* samples that remain, and these are free of wraparound.
C3_CropIsSumAtStart ==
    searched # NoSeries =>
        /\ StartCropped = TemplateSec * SampleRateOf(searched) + psd.filt_len
        /\ EndCropped = psd.filt_len
        /\ StartCropped >= Max(TemplateLength, psd.filt_len)
        /\ EndCropped >= Max(TemplateLength, psd.filt_len)
        /\ \E o \in ObjectsOf("snr") :
               searched = Crop(heap[o], SnrCropStart, SnrCropEnd)
        /\ ~HasBad(searched)
        /\ peak \in 0..(Len(searched.data) - 1)
        /\ snrp = searched.data[peak + 1]
\* A peak search took place on a cropped series, with a template of the
\* full allowance, whose uncropped SNR is corrupted beyond max(...) samples.
C3_Witness ==
    /\ searched # NoSeries
    /\ peak >= 0
    /\ TemplateLength = TemplateSec * SampleRateOf(searched)
    /\ \E o \in ObjectsOf("snr") :
           heap[o].data[Max(TemplateLength, psd.filt_len) + 1].bad

FirOp(r) == r.op \in {"highpass_fir", "lowpass_fir"}
\* The half-lengths of operations i..j summed.
HalfLengths(i, j) == SeqSum([k \in 1..(j - i + 1) |-> ops[i + k - 1].a])
\* Object o was derived through a cyclic time shift.
Rotated(o) == \E k \in 1..Len(ops) : ops[k].op = "cyclic_time_shift" /\ ops[k].out <= o

\* C2: after any sequence of FIR applications (highpass_fir / lowpass_fir,
\* corrupted region dropped) with half-lengths L1..Lk the series has lost
\* L1 + .. + Lk samples at its beginning and as many at its end, its epoch
\* has moved by that many samples, every remaining sample stands for the
\* sample of the input L1 + .. + Lk places later, and none derives from a
\* window that left the input.
C2_FirTrimAccounting ==
    \A i, j \in 1..Len(ops) :
        (i <= j /\ \A k \in i..j : FirOp(ops[k])) =>
            LET in  == heap[ops[i].inp]
                out == heap[ops[j].out]
                L   == HalfLengths(i, j)
            IN  /\ Len(in.data) - Len(out.data) = 2 * L
                /\ out.delta_t = in.delta_t
                /\ out.start_time = in.start_time + L * in.delta_t
                /\ \A m \in 1..Len(out.data) : out.data[m].src = in.data[m + L].src
                /\ ~HasBad(in) => ~HasBad(out)
\* A high-pass followed by a low-pass on the input, as in
\* highpass_fir(30, 512).lowpass_fir(250, 512).
C2_Witness ==
    /\ Len(ops) = 2
    /\ ops[1].op = "highpass_fir" /\ ops[2].op = "lowpass_fir"
    /\ ops[1].a = ops[2].a
    /\ Len(Obj("ts").data) = OpsLen - 4 * ops[1].a
    /\ ~HasBad(Obj("ts"))

\* C7: crop(a, b) of a series of n samples, interval dt and start t0 returns
\* a new series: the input without its first a/dt and last b/dt samples, of
\* length n - a/dt - b/dt, with dt unchanged and start t0 + a (the end crop
\* does not move it); each kept sample keeps its value and time stamp, and
\* the input is left as it was.
C7_Crop ==
    \A k \in 1..Len(ops) :
        ops[k].op = "crop" =>
            LET in  == heap[ops[k].inp]
                out == heap[ops[k].out]
                a   == ops[k].a * TicksPerSec
                b   == ops[k].b * TicksPerSec
                na  == a \div in.delta_t
                nb  == b \div in.delta_t
            IN  /\ na * in.delta_t = a /\ nb * in.delta_t = b
                /\ Len(out.data) = Len(in.data) - na - nb
                /\ out.delta_t = in.delta_t
                /\ out.start_time = in.start_time + a
                /\ \A m \in 1..Len(out.data) :
                       /\ out.data[m] = in.data[m + na]
                       /\ SampleTimes(out)[m] = SampleTimes(in)[m + na]
                /\ ops[k].out # ops[k].inp
                /\ in = born[ops[k].inp]
\* A crop with different, non-zero amounts at the two ends.
C7_Witness ==
    \E k \in 1..Len(ops) :
        /\ ops[k].op = "crop"
        /\ ops[k].a > 0 /\ ops[k].b > 0 /\ ops[k].a # ops[k].b
        /\ heap[ops[k].out].start_time > heap[ops[k].inp].start_time

\* C8: every series produced by a sequence of crop, time_slice, FIR
\* filtering, resampling, cyclic shift and subtraction has at least one
\* sample and time stamps sample_times[i] = t0 + i*dt; unless it was rotated
\* by a cyclic shift, these are the times its samples were measured at.
C8_SampleTimes ==
    \A o \in 1..Len(heap) :
        LET ts == heap[o]
        IN  /\ Len(ts.data) >= 1
            /\ ts.delta_t >= 1
            /\ \A i \in 0..(Len(ts.data) - 1) :
                   /\ SampleTimes(ts)[i + 1] = ts.start_time + i * ts.delta_t
                   /\ ~Rotated(o) => ts.data[i + 1].src = SampleTimes(ts)[i + 1]
\* A crop, a FIR filter and a time slice have left a single sample.
C8_Witness ==
    /\ pc = "ops"
    /\ Len(ops) = MaxOps
    /\ \E k \in 1..Len(ops) : ops[k].op = "crop"
    /\ \E k \in 1..Len(ops) : FirOp(ops[k])
    /\ ops[Len(ops)].op = "time_slice"
    /\ Len(Obj("ts").data) = 1

\* ------------------------------------------- claims on the matched filter engine
\* The log of a run of SpecMF is crop, peak, shift, crop, peak.
UniqueMax(ts, g) ==
    \A i \in 1..Len(ts.data) :
        i # g + 1 => MagGreater(AbsSq(ts.data[g + 1]), AbsSq(ts.data[i]))
\* The peak of the first run stays inside the cropped region under the shift.
PeakStays ==
    ops[2].a + ops[3].a \in 0..(Len(heap[ops[2].out].data) - 1)
\* The data of the first run is the template itself.
DataIsTemplate ==
    \A i \in 1..RingLen : heap[2].data[i].re = heap[1].data[i].re

\* C4: the peak search returns the first index p of the cropped SNR series
\* at which |snr| is largest over the whole cropped span (on ties the
\* smallest index); p is an index of the cropped series, and the value and
\* the time reported are snr[p] and snr.sample_times[p] = t0 + p*dt.
C4_PeakIsFirstArgmax ==
    searched # NoSeries =>
        /\ \E k \in 1..Len(ops) : ops[k].op = "crop" /\ searched = heap[ops[k].out]
        /\ Len(searched.data) < RingLen
        /\ peak \in 0..(Len(searched.data) - 1)
        /\ \A i \in 0..(Len(searched.data) - 1) :
               ~MagGreater(AbsSq(searched.data[i + 1]), AbsSq(searched.data[peak + 1]))
        /\ \A i \in 0..(peak - 1) :
               MagGreater(AbsSq(searched.data[peak + 1]), AbsSq(searched.data[i + 1]))
        /\ snrp = searched.data[peak + 1]
        /\ time = searched.start_time + peak * searched.delta_t
\* The largest magnitude is taken twice in the cropped series, and the
\* first of the two, not at the start of the series, is the peak.
C4_Witness ==
    /\ searched # NoSeries
    /\ peak > 0
    /\ \E i \in (peak + 1)..(Len(searched.data) - 1) :
           AbsSq(searched.data[i + 1]) = AbsSq(searched.data[peak + 1])

\* C5 (as the specification states it): for a fixed template and PSD,
\* shifting the data by k samples shifts the time of the SNR peak by k*dt
\* and leaves its magnitude unchanged, whenever the peak stays inside the
\* cropped region.
C5_ShiftMovesPeak ==
    (Len(ops) = 5 /\ PeakStays) =>
        /\ ops[5].b = ops[2].b + ops[3].a * heap[ops[2].out].delta_t
        /\ AbsSq(heap[ops[5].out].data[ops[5].a + 1])
               = AbsSq(heap[ops[2].out].data[ops[2].a + 1])
\* C5 (corrected): shifting the data around the ring by k samples shifts
\* every sample of the uncropped SNR series by k places; the peak of the
\* cropped series moves by k*dt with its value unchanged whenever it stays
\* inside the cropped region and is the one largest sample of the whole
\* uncropped series.
C5_ShiftMovesUniquePeak ==
    /\ Len(ops) >= 4 =>
           LET u1 == heap[ops[1].inp]
               u2 == heap[ops[4].inp]
           IN  \A j \in 1..RingLen :
                   Coef(u2.data[j]) = Coef(u1.data[Mod(j - 1 - ops[3].a, RingLen) + 1])
    /\ Len(ops) = 5 =>
           LET u1 == heap[ops[1].inp]
               s1 == heap[ops[2].out]
               s2 == heap[ops[5].out]
               c1 == (s1.start_time - u1.start_time) \div s1.delta_t
           IN  (PeakStays /\ UniqueMax(u1, ops[2].a + c1)) =>
                   /\ ops[5].a = ops[2].a + ops[3].a
                   /\ ops[5].b = ops[2].b + ops[3].a * s1.delta_t
                   /\ time = ops[5].b
                   /\ Coef(s2.data[ops[5].a + 1]) = Coef(s1.data[ops[2].a + 1])
\* Both runs are done, the peak was the one largest sample in data that
\* holds the template twice, and it moved with the data.
C5_Witness ==
    /\ Len(ops) = 5
    /\ PeakStays
    /\ UniqueMax(heap[ops[1].inp], ops[2].a + CropStartSamples(heap[ops[1].inp], MFCropStart))
    /\ ops[5].a # ops[2].a
    /\ ~DataIsTemplate

\* C6: filtering a template against data equal to that template, with a
\* flat unit PSD and no noise, gives an SNR series whose peak is at zero
\* offset (the first sample, stamped with the data's start time), has no
\* imaginary part and is sigma^2 in units of 1/sigma: the template's
\* sigma-normalised amplitude sigma.
C6_UnitResponse ==
    (pc = "mf_crop" /\ ops = <<>> /\ DataIsTemplate /\ psd = MFPsd(FALSE)) =>
        LET snr == Obj("snr")
            q   == snr.data[1]
        IN  /\ Argmax(snr) = 0
            /\ SampleTimes(snr)[1] = Obj("conditioned").start_time
            /\ q.im = 0 /\ q.z1 + q.z3 = 0
            /\ <<q.re, q.z1>> = SigmaSq(Obj("template"), psd)
            /\ RootPos(q.re, q.z1)
\* The template, of two samples, has been filtered against itself.
C6_Witness ==
    /\ pc = "mf_crop" /\ ops = <<>>
    /\ DataIsTemplate /\ psd = MFPsd(FALSE)
    /\ Obj("template").data[RingLen].re # 0
    /\ Obj("snr").data[2] # Obj("snr").data[1]

\* C10: matched_filter with a template and data of different sample
\* intervals fails with a SampleRateMismatchError and produces no SNR
\* series; with equal sample intervals it produces one, at the data's
\* sample interval.
C10_SampleRateMismatch ==
    LET tpl  == Obj("template")
        data == Obj("conditioned")
    IN  /\ pc = "SampleRateMismatchError" => tpl.delta_t # data.delta_t
        /\ tpl.delta_t # data.delta_t =>
               /\ pc \in {"mf_filter", "SampleRateMismatchError"}
               /\ ~Bound("snr")
        /\ (tpl.delta_t = data.delta_t /\ pc # "mf_filter") =>
               /\ Bound("snr")
               /\ Obj("snr").delta_t = data.delta_t
\* The call has failed on a template at the raw sample interval.
C10_Witness ==
    /\ pc = "SampleRateMismatchError"
    /\ Obj("template").delta_t # Obj("conditioned").delta_t
    /\ ~Bound("snr")

\* ------------------------------------------------------------------- C11
\* C11: psd(T_seg) raises InsufficientDataError when the series lasts less
\* than T_seg, and returns a PSD (of T_seg * rate / 2 + 1 bins) whenever the
\* series lasts at least T_seg.
C11_InsufficientData ==
    \A k \in 1..Len(ops) :
        ops[k].op = "psd" =>
            LET ts == heap[ops[k].inp]
                m  == ops[k].a * SampleRateOf(ts)
            IN  /\ Duration(ts) < ops[k].a * TicksPerSec =>
                      /\ ops[k].out = 0
                      /\ pc = "InsufficientDataError"
                      /\ psd = NoPsd
                /\ Duration(ts) >= ops[k].a * TicksPerSec =>
                      /\ ops[k].out = 1
                      /\ pc # "InsufficientDataError"
                      /\ psd.seg_len = m
                      /\ psd.delta_t = ts.delta_t
                      /\ pc = "st_interpolate" => Len(psd.data) = m \div 2 + 1
\* A series shorter than the segment was rejected.
C11_Witness ==
    /\ pc = "InsufficientDataError"
    /\ Len(ops) = 1
    /\ ops[1].op = "psd"
    /\ Duration(heap[ops[1].inp]) < ops[1].a * TicksPerSec
    /\ Len(heap[ops[1].inp].data) >= 1

\* ------------------------------------------------------------------- C12
\* C12: inverse_spectrum_truncation with a maximum filter length above the
\* length of the segments of the PSD estimate raises (ConfigurationError when
\* the cutoff is valid); a length up to and including the segment length
\* succeeds and becomes the filter length of the PSD.
C12_TruncationLength ==
    \A k \in 1..Len(ops) :
        ops[k].op = "truncate" =>
            LET valid == CutoffInRange(ops[k].b, psd.delta_t)
            IN  /\ ops[k].a > psd.seg_len =>
                      /\ ops[k].out = 0
                      /\ pc \in {"ConfigurationError", "FrequencyRangeError"}
                      /\ valid => pc = "ConfigurationError"
                      /\ psd.filt_len = 0
                /\ ops[k].a <= psd.seg_len /\ valid =>
                      /\ ops[k].out = 1
                      /\ pc # "ConfigurationError"
                      /\ psd.filt_len = ops[k].a
\* The truncation to exactly the segment length succeeded.
C12_Witness ==
    /\ pc = "st_filter"
    /\ \E k \in 1..Len(ops) :
          /\ ops[k].op = "truncate"
          /\ ops[k].a = psd.seg_len
          /\ ops[k].out = 1
    /\ psd.filt_len = psd.seg_len

C14_Subtract ==
    /\ pc = "set_start" =>
          /\ Obj("aligned").start_time # Obj("conditioned").start_time
          /\ Len(Obj("aligned").data) = Len(Obj("conditioned").data)
          /\ Obj("aligned").delta_t = Obj("conditioned").delta_t
    /\ pc = "subtract" => CanSubtract(Obj("conditioned"), Obj("aligned"))
    /\ pc # "error"
    /\ Bound("subtracted") =>
          LET d == Obj("conditioned")
              a == Obj("aligned")
              r == Obj("subtracted")
          IN  /\ r.delta_t = d.delta_t
              /\ r.start_time = d.start_time
              /\ Len(r.data) = Len(d.data)
              /\ Len(a.data) = Len(d.data)
              /\ a.delta_t = d.delta_t
              /\ a.start_time = d.start_time
              /\ \A i \in 1..Len(d.data) :
                    \* r[i] = d[i] - a[i] as fractions
                    r.data[i].re * d.data[i].den * a.data[i].den
                        = (d.data[i].re * a.data[i].den
                              - a.data[i].re * d.data[i].den) * r.data[i].den
\* The subtraction ran and changed some sample of the data.
C14_Witness ==
    /\ pc = "done"
    /\ Bound("subtracted")
    /\ \E i \in 1..Len(Obj("conditioned").data) :
          /\ Obj("aligned").data[i].re # 0
          /\ Obj("subtracted").data[i].re
                # Obj("conditioned").data[i].re * Obj("subtracted").data[i].den

\* ------------------------------------------------------------------- C15
\* The number of samples between the start of the data and the peak.
AlignShift == (time - Obj("conditioned").start_time) \div Obj("conditioned").delta_t
\* C15: the peak (time, snrp) is read from the cropped SNR series; aligned
\* is a new series of the template's length, the template rotated by
\* time - conditioned.start_time, so that the template's first bin (its
\* merger, stamped 0) sits at the data sample stamped `time'; it is then
\* divided by sigma and scaled by the complex peak value.
C15_Align ==
    Bound("aligned") =>
        LET d  == Obj("conditioned")
            t  == Obj("template")
            a  == Obj("aligned")
            n  == Len(t.data)
            k  == AlignShift
            \* the template sample that sits at position i of aligned
            from(i) == t.data[Mod(i - 1 - k, n) + 1]
            fromQuad(i) == t.data[Mod(i - 2 - k, n) + 1]
            sg == Max(1, Isqrt(SeqSum([i \in 1..n |-> t.data[i].re * t.data[i].re])))
        IN  /\ time = SampleTimes(searched)[peak + 1]
            /\ snrp = searched.data[peak + 1]
            /\ searched = Crop(born[ns["snr"] - 1], SnrCropStart, SnrCropEnd)
            /\ k \in 0..(Len(d.data) - 1)
            /\ SampleTimes(d)[k + 1] = time
            /\ t.data[1].src = 0
            /\ ns["aligned"] # ns["template"]
            /\ t = born[ns["template"]]
            /\ Len(a.data) = n
            /\ a.delta_t = t.delta_t
            /\ \A i \in 1..n : a.data[i].src = from(i).src
            /\ a.data[k + 1].src = 0
            /\ pc = "normalise" => \A i \in 1..n : a.data[i] = from(i)
            /\ pc = "scale" =>
                  \A i \in 1..n : a.data[i].re = from(i).re /\ a.data[i].den = sg
            /\ pc \notin {"normalise", "scale"} =>
                  \A i \in 1..n :
                      /\ a.data[i].re = snrp.re * from(i).re - snrp.im * fromQuad(i).re
                      /\ a.data[i].den = sg
\* The template was moved by a whole number of samples to a peak inside the
\* data, normalised by a sigma above one and turned by a complex peak value.
C15_Witness ==
    /\ pc = "subtract"
    /\ AlignShift > 0
    /\ snrp.im # 0
    /\ snrp.re # 0
    /\ \E i \in 1..Len(Obj("aligned").data) : Obj("aligned").data[i].den > 1

PsdFits(x) ==
    /\ psd.inv_df = Len(x.data) * x.delta_t
    /\ Len(psd.data) = Len(x.data) \div 2 + 1
    /\ psd.delta_t = x.delta_t
\* C17: wherever the PSD is used as a filter (by matched_filter, by sigma,
\* by the two whitening divisions) its bins are those of the series it is
\* applied to, and template and data have the same length and dt; the PSD
\* as estimated does not fit the data, it does since it was interpolated.
C17_PsdMatchesData ==
    /\ pc = "interpolate" => ~PsdFits(Obj("conditioned"))
    /\ pc = "matched_filter" =>
          /\ PsdFits(Obj("conditioned"))
          /\ PsdFits(Obj("template"))
          /\ Len(Obj("template").data) = Len(Obj("conditioned").data)
          /\ Obj("template").delta_t = Obj("conditioned").delta_t
    /\ pc = "normalise" => PsdFits(Obj("aligned"))
    /\ pc = "white_data" => PsdFits(Obj("conditioned"))
    /\ pc = "white_template" => PsdFits(Obj("tapered"))
    /\ pc \notin {"error"} \cup StageErrors
\* Both whitening divisions have run, with a waveform that was shorter than
\* the data before it was resized.
C17_Witness ==
    /\ pc = "subtract"
    /\ Bound("white_data")
    /\ Bound("white_template")
    /\ TemplateLength < Len(Obj("conditioned").data)
    /\ psd.seg_len < Len(Obj("conditioned").data)

\* ------------------------------------------------------------------- C20
\* C20: strain = resample_to_delta_t(highpass(strain, 15.0), 1.0/2048), a
\* resampling by the whole ratio r: the result has r times the dt, the same
\* t0, n / r samples at the times t0 + i * r * dt and the same duration;
\* sample i stands for sample i * r of the input; it is corrupted exactly
\* when the low-pass window around that input sample wraps around an end of
\* the input (the resampler's own span, at both ends) or holds a sample the
\* high-pass filter corrupted (the span accumulated before).
C20_Resample ==
    (Len(heap) >= 2 /\ owner[2] = "strain") =>
        LET x == Highpass(born[1])
            y == born[2]
            n == Len(x.data)
            r == Decim
            h == HalfLen(LowpassTaps)
            at(p) == x.data[Mod(p - 1, n) + 1]
            own(p) == p - h < 1 \/ p + h > n
            inherited(p) == \E m \in -h..h : at(p + m).bad
        IN  /\ y.delta_t = r * x.delta_t
            /\ y.start_time = x.start_time
            /\ x.start_time = born[1].start_time
            /\ r * Len(y.data) = n
            /\ \A i \in 1..Len(y.data) :
                  /\ SampleTimes(y)[i] = x.start_time + (i - 1) * y.delta_t
                  /\ y.data[i].src = x.data[(i - 1) * r + 1].src
                  /\ y.data[i].bad <=> (own((i - 1) * r + 1)
                                            \/ inherited((i - 1) * r + 1))
            /\ Duration(y) = Duration(x)
            /\ own(1)
            /\ own((Len(y.data) - 1) * r + 1)
\* After resampling the second sample is corrupted though the input sample
\* it stands for was not, the third is clean, and so is the one before the
\* last.
C20_Witness ==
    /\ pc = "crop"
    /\ owner[2] = "strain"
    /\ born[2].data[2].bad
    /\ ~Highpass(born[1]).data[Decim + 1].bad
    /\ ~born[2].data[3].bad
    /\ born[2].data[Len(born[2].data)].bad
    /\ ~born[2].data[Len(born[2].data) - 1].bad


\* The first object bound to a name; for snr the one matched_filter returned.
FirstOf(name) == CHOOSE o \in ObjectsOf(name) : \A q \in ObjectsOf(name) : o <= q
FirstSnr == FirstOf("snr")

\* C21: the SNR series matched_filter returns has the data's dt, length and
\* start time; cropped by a seconds at its start and b seconds at its end
\* (snr.crop(4 + 4, 4)) it keeps the dt, its length is
\* len(data) - (a + b)/dt, its start time is data.t0 + a, and its samples
\* are those of the uncropped series from a/dt on.
C21_SnrSeries ==
    \A o \in ObjectsOf("snr") :
        LET data == Obj("conditioned")
            full == born[FirstSnr]
            s == born[o]
            a == SnrCropStart * TicksPerSec
            b == SnrCropEnd * TicksPerSec
        IN  IF o = FirstSnr
            THEN /\ s.delta_t = data.delta_t
                 /\ Len(s.data) = Len(data.data)
                 /\ s.start_time = data.start_time
            ELSE /\ s.delta_t = data.delta_t
                 /\ Len(s.data) = Len(data.data) - (a + b) \div data.delta_t
                 /\ s.start_time = data.start_time + a
                 /\ \A i \in 1..Len(s.data) :
                        s.data[i] = full.data[i + (a \div data.delta_t)]
                 /\ SampleTimes(s)[1] = SampleTimes(full)[(a \div data.delta_t) + 1]
\* The SNR series was cropped: it is shorter than the data, starts later,
\* and the uncropped series held corrupted samples in both removed spans.
C21_Witness ==
    /\ pc = "peak"
    /\ Cardinality(ObjectsOf("snr")) = 2
    /\ Len(Obj("snr").data) < Len(Obj("conditioned").data)
    /\ Obj("snr").start_time > Obj("conditioned").start_time
    /\ born[FirstSnr].data[1].bad
    /\ born[FirstSnr].data[Len(Obj("conditioned").data)].bad


\* The filter of a logged FIR operation applied to x in the given mode.
FirOf(k, x, remove_corrupted) ==
    IF ops[k].op = "highpass_fir"
    THEN HighpassFir(x, ops[k].a, remove_corrupted)
    ELSE LowpassFir(x, ops[k].a, remove_corrupted)
IsZero(x) == x.re = 0 /\ x.z1 = 0 /\ x.im = 0 /\ x.z3 = 0

\* C22: an FIR filter of half-length L applied with remove_corrupted=False
\* returns a series of its input's length, dt and t0 whose first L and last
\* L samples are zero, every sample keeping its time stamp; in the default
\* mode the result is that series without those 2L samples, so it is 2L
\* shorter and its t0 is L*dt later.
C22_FirModes ==
    \A k \in 1..Len(ops) :
        LET x == heap[ops[k].inp]
            y == heap[ops[k].out]
            L == ops[k].a
            n == Len(x.data)
            zeroed == FirOf(k, x, FALSE)
        IN  /\ y.delta_t = x.delta_t
            /\ IF ops[k].b = 0
               THEN /\ Len(y.data) = n
                    /\ y.start_time = x.start_time
                    /\ \A i \in 1..n :
                          /\ SampleTimes(y)[i] = SampleTimes(x)[i]
                          /\ y.data[i].src = x.data[i].src
                          /\ (i <= L \/ i > n - L) => IsZero(y.data[i])
                    /\ n > 2 * L =>
                          \A i \in 1..(n - 2 * L) :
                              y.data[i + L] = FirOf(k, x, TRUE).data[i]
               ELSE /\ Len(y.data) = n - 2 * L
                    /\ y.start_time = x.start_time + L * x.delta_t
                    /\ \A i \in 1..Len(y.data) :
                          /\ SampleTimes(y)[i] = SampleTimes(x)[i + L]
                          /\ y.data[i].src = x.data[i + L].src
                          /\ y.data[i] = zeroed.data[i + L]
                    /\ \A i \in 1..n :
                          (i <= L \/ i > n - L) => IsZero(zeroed.data[i])
\* A filter in the zeroing mode turned non-zero samples at both ends into
\* zeros and left a non-zero sample between them, and a filter in the
\* default mode then dropped the zeroed samples.
C22_Witness ==
    /\ Len(ops) >= 2
    /\ ops[1].b = 0
    /\ ops[2].b = 1
    /\ ops[1].a = ops[2].a
    /\ ~IsZero(heap[ops[1].inp].data[1])
    /\ ~IsZero(heap[ops[1].inp].data[OpsLen])
    /\ IsZero(heap[ops[1].out].data[1])
    /\ IsZero(heap[ops[1].out].data[OpsLen])
    /\ \E i \in 1..OpsLen : ~IsZero(heap[ops[1].out].data[i])
    /\ Len(heap[ops[2].out].data) = OpsLen - 2 * ops[2].a


\* The two sequences hold the same samples the same number of times.
SameSamples(s, t) ==
    /\ Len(s) = Len(t)
    /\ \A i \in 1..Len(s) :
           Cardinality({j \in 1..Len(s) : s[j] = s[i]})
               = Cardinality({j \in 1..Len(t) : t[j] = s[i]})
\* y is x with its samples moved k places along the ring, time stamps kept.
ShiftedOnRing(x, y, k) ==
    /\ Len(y.data) = Len(x.data)
    /\ SameSamples(x.data, y.data)
    /\ y.start_time = x.start_time
    /\ y.delta_t = x.delta_t
    /\ SampleTimes(y) = SampleTimes(x)
    /\ \A i \in 1..Len(x.data) :
           y.data[Mod(i - 1 + k, Len(x.data)) + 1] = x.data[i]

\* C25: cyclic_time_shift treats the vector as a ring: the result has the
\* length and the multiset of samples of its input and the input's start
\* time and dt, only the positions of the samples differ; and
\* template = hp.cyclic_time_shift(hp.start_time), for a waveform whose
\* merger is stamped 0, has the merger sample in its first bin.  (Each
\* result is compared with its input when the call has returned; the
\* template is not changed afterwards, and the statements that scale
\* aligned leave its samples in place.)
C25_CyclicTimeShift ==
    /\ pc = "matched_filter" =>
          LET h == Obj("hp")
              t == Obj("template")
              m == (0 - h.start_time) \div h.delta_t
          IN  /\ ShiftedOnRing(h, t, 0 - m)
              /\ m \in 0..(Len(h.data) - 1)
              /\ SampleTimes(h)[m + 1] = 0
              /\ h.data[m + 1].src = 0
              /\ t.data[1] = h.data[m + 1]
    /\ pc = "normalise" =>
          ShiftedOnRing(Obj("template"), Obj("aligned"),
                        (time - Obj("conditioned").start_time)
                            \div Obj("template").delta_t)
    /\ Bound("template") => Obj("template") = born[ns["template"]]
    /\ Bound("aligned") =>
          /\ Len(Obj("aligned").data) = Len(Obj("template").data)
          /\ Obj("aligned").delta_t = Obj("template").delta_t
          /\ \A i \in 1..Len(Obj("aligned").data) :
                 Obj("aligned").data[i].src = born[FirstOf("aligned")].data[i].src
\* The waveform began before its merger, so the shift moved the merger from
\* inside the vector to the first bin and the samples before the merger
\* around the ring to the end of the vector; the template was then shifted
\* again, to the peak.
C25_Witness ==
    /\ Bound("aligned")
    /\ Obj("hp").start_time < 0
    /\ Obj("hp").data[1].src < 0
    /\ Obj("template").data[1].src = 0
    /\ Obj("template").data[Len(Obj("template").data)].src < 0
    /\ ~IsZero(Obj("template").data[Len(Obj("template").data)])
    /\ Obj("template").start_time = Obj("hp").start_time
    /\ born[FirstOf("aligned")] # Obj("template")


\* The window of a logged time_slice and the samples it kept: the log holds
\* the offsets of start and end from the two ends of the input.
SliceStart(k) == heap[ops[k].inp].start_time + ops[k].a
SliceEnd(k) == EndTime(heap[ops[k].inp]) + ops[k].b
SliceFirst(k) ==
    (SliceStart(k) - heap[ops[k].inp].start_time) \div heap[ops[k].inp].delta_t
SliceLast(k) ==
    (SliceEnd(k) - heap[ops[k].inp].start_time) \div heap[ops[k].inp].delta_t
Kept(k, j) == SliceFirst(k) < j /\ j <= SliceLast(k)
OnGrid(k, t) ==
    (t - heap[ops[k].inp].start_time) % heap[ops[k].inp].delta_t = 0

AloneTemplate(w) ==
    LET hp == Resize(born[FirstOf(HpName(w))], Len(born[1].data))
    IN  CyclicTimeShift(hp, hp.start_time)
AloneSnr(w) == MatchedFilter(Obj(TemplateName(w)), heap[1], psd)
SearchOps == {"matched_filter", "sigma", "peak", "align", "scale",
              "set_start_time", "subtract"}
DisplayOps == {"bandpass", "time_slice", "qtransform"}
\* Object o, as statement k of the log finds it, is a whitened series.
Whitened(o, k) == \E j \in 1..(k - 1) : ops[j].op = "whiten" /\ ops[j].out = o
\* Object o, as statement k finds it, is a whitened series or was computed
\* from one.
RECURSIVE FromWhitened(_, _)
FromWhitened(o, k) ==
    \E j \in 1..(k - 1) :
        /\ ops[j].out = o
        /\ \/ ops[j].op = "whiten"
           \/ \E i \in ops[j].inp : FromWhitened(i, j)
\* C24: whitening is for display only: matched_filter, sigma, the peak
\* search, the alignment (shift, scaling, start time) and the subtraction
\* read no whitened series and nothing computed from one, only the
\* conditioned data, the template, the PSD and what the search itself made
\* of them; a whitened series is read only by a band-pass, a time slice or
\* the Q-transform, and what is computed from it only by these and by the
\* roll and the sign flip that line up the band-passed L1 series for its
\* plot.
C24_WhiteningIsDisplayOnly ==
    \A k \in 1..Len(ops) :
        /\ ops[k].op \in SearchOps =>
              \A i \in ops[k].inp :
                  /\ ~FromWhitened(i, k)
                  /\ i > 0 => owner[i] \in {"conditioned", "template", "snr",
                                            "aligned"}
        /\ \A i \in ops[k].inp :
              /\ Whitened(i, k) => ops[k].op \in DisplayOps
              /\ FromWhitened(i, k) =>
                    ops[k].op \in DisplayOps \cup {"roll", "negate"}
\* The matched-filter notebook ran to its end: the search and the
\* subtraction took place, the data and the template were whitened,
\* band-passed and sliced, and the Q-transform read the whitened data and
\* the whitened residual.
C24_Witness ==
    /\ pc = "done"
    /\ Bound("subtracted")
    /\ \E k \in 1..Len(ops) : ops[k].op = "matched_filter"
    /\ \E k \in 1..Len(ops) : ops[k].op = "subtract"
    /\ \E k \in 1..Len(ops) :
          /\ ops[k].op = "bandpass"
          /\ \E i \in ops[k].inp : Whitened(i, k)
    /\ \E k \in 1..Len(ops) :
          /\ ops[k].op = "time_slice"
          /\ \E i \in ops[k].inp : FromWhitened(i, k) /\ ~Whitened(i, k)
    /\ Cardinality({k \in 1..Len(ops) :
                       /\ ops[k].op = "qtransform"
                       /\ \E i \in ops[k].inp : Whitened(i, k)}) = 2

====
